---- MODULE Spec2Model ----
(***************************************************************************)
(* Model of renderdoc/driver/d3d12/d3d12_postvs.cpp: the payload copier    *)
(* (PayloadBufferCopy), the payload-store injector                         *)
(* (AddDXILAmpShaderPayloadStores), the feeder synthesizer                 *)
(* (ConvertToFixedDXILAmpFeeder) and the execution of the instruction      *)
(* streams they emit.                                                      *)
(*                                                                         *)
(* A uint32_t / i32 value is held as its four bytes, least significant     *)
(* first, so that 32-bit wrap-around is computed exactly.                  *)
(***************************************************************************)
EXTENDS Integers, Sequences, FiniteSets, TLC

(***************************************************************************)
(* Unsigned arithmetic on byte strings (little endian).                    *)
(***************************************************************************)
Max2(a, b) == IF a >= b THEN a ELSE b

Digit(a, i) == IF i >= 1 /\ i <= Len(a) THEN a[i] ELSE 0

\* the natural number n (0 <= n < 2^31) as a uint32_t
U32(n) == <<n % 256, (n \div 256) % 256, (n \div 65536) % 256, (n \div 16777216) % 256>>

\* the exact sum of two byte strings, one byte longer than the longer one
BigAdd(x, y) ==
  CHOOSE sum \in
    {LET n == Max2(Len(a), Len(b)) + 1
         c[i \in 0..n] == IF i = 0 THEN 0 ELSE (Digit(a, i) + Digit(b, i) + c[i - 1]) \div 256
     IN  [i \in 1..n |-> (Digit(a, i) + Digit(b, i) + c[i - 1]) % 256] \o <<>> :
       a \in {x}, b \in {y}} : TRUE

\* the exact product of two byte strings, Len(a) + Len(b) bytes
BigMul(x, y) ==
  CHOOSE product \in
    {LET n == Len(a) + Len(b)
         col[k \in 1..n] ==
           LET s[i \in 0..k] == IF i = 0 THEN 0 ELSE s[i - 1] + Digit(a, i) * Digit(b, k + 1 - i)
           IN  s[k]
         t[k \in 0..n] == IF k = 0 THEN 0 ELSE col[k] + (t[k - 1] \div 256)
     IN  [k \in 1..n |-> t[k] % 256] \o <<>> :
       a \in {x}, b \in {y}} : TRUE

\* a < b as natural numbers
BigLess(x, y) ==
  \E a \in {x}, b \in {y} :
    LET n == Max2(Len(a), Len(b))
        lt[i \in 0..n] ==
          IF i = 0 THEN FALSE
          ELSE IF Digit(a, i) < Digit(b, i) THEN TRUE
          ELSE IF Digit(a, i) > Digit(b, i) THEN FALSE
          ELSE lt[i - 1]
    IN  lt[n]

BigEq(a, b) == ~BigLess(a, b) /\ ~BigLess(b, a)

BigLeq(a, b) == ~BigLess(b, a)

\* the low 32 bits
Trunc32(a) == <<Digit(a, 1), Digit(a, 2), Digit(a, 3), Digit(a, 4)>>

\* uint32_t addition and multiplication, and the i32 Add and Mul instructions
Add32(a, b) == Trunc32(BigAdd(a, b))

Mul32(a, b) == Trunc32(BigMul(a, b))

\* the value of a byte string that is known to be below 2^31
ToNat(a) ==
  LET s[i \in 0..Len(a)] == IF i = 0 THEN 0 ELSE a[Len(a) + 1 - i] + 256 * s[i - 1]
  IN  s[Len(a)]

\* RDCMAX on uint32_t
RDCMAX(a, b) == IF BigLess(a, b) THEN b ELSE a

(***************************************************************************)
(* DXIL::Type.  Every type is a record with the same fields; inner holds   *)
(* the element type of an array, pointer or vector as a one-element        *)
(* sequence.                                                               *)
(***************************************************************************)
ScalarT(kind, width) ==
  [type |-> "Scalar", scalarType |-> kind, bitWidth |-> width, elemCount |-> 0,
   inner |-> <<>>, members |-> <<>>]

ArrayT(elem, count) ==
  [type |-> "Array", scalarType |-> "Void", bitWidth |-> 0, elemCount |-> count,
   inner |-> <<elem>>, members |-> <<>>]

StructT(ms) ==
  [type |-> "Struct", scalarType |-> "Void", bitWidth |-> 0, elemCount |-> 0,
   inner |-> <<>>, members |-> ms]

PointerT(elem) ==
  [type |-> "Pointer", scalarType |-> "Void", bitWidth |-> 0, elemCount |-> 0,
   inner |-> <<elem>>, members |-> <<>>]

VectorT(elem, count) ==
  [type |-> "Vector", scalarType |-> "Void", bitWidth |-> 0, elemCount |-> count,
   inner |-> <<elem>>, members |-> <<>>]

voidType == ScalarT("Void", 0)
i1 == ScalarT("Int", 1)
i8 == ScalarT("Int", 8)
i16 == ScalarT("Int", 16)
i32 == ScalarT("Int", 32)
i64 == ScalarT("Int", 64)
f16 == ScalarT("Float", 16)
f32 == ScalarT("Float", 32)
f64 == ScalarT("Float", 64)

(***************************************************************************)
(* DXIL::Value.  k is the kind of value, ty its type and v its content:    *)
(* the bytes of a constant, the id of the instruction or block referred    *)
(* to, the index chain of a constant GEP into the payload variable.        *)
(***************************************************************************)
CreateConstant(n) == [k |-> "const", ty |-> i32, v |-> n]
CreateConstant8(n) == [k |-> "const", ty |-> i8, v |-> <<n>>]
CreateConstantBool(b) == [k |-> "const", ty |-> i1, v |-> <<IF b THEN 1 ELSE 0>>]
CreateLiteral(n) == [k |-> "literal", ty |-> i32, v |-> <<n>>]
CreateUndef(t) == [k |-> "undef", ty |-> t, v |-> <<>>]
\* a constant GEP: chain[1] is the variable, the rest are constant indices
CreateConstantGEP(t, chain) ==
  [k |-> "gep", ty |-> t, v |-> [i \in 1..(Len(chain) - 1) |-> ToNat(chain[i + 1].v)]]
CreateStructConstant(t, bytes) == [k |-> "struct", ty |-> t, v |-> bytes]
DXOpArg == [k |-> "dxop", ty |-> i32, v |-> <<>>]
InstRef(inst) == [k |-> "inst", ty |-> inst.type, v |-> <<inst.id>>]
BlockRef(b) == [k |-> "block", ty |-> voidType, v |-> <<b>>]
PayloadVariable(t) == [k |-> "global", ty |-> PointerT(t), v |-> <<>>]

(***************************************************************************)
(* DXIL::Instruction.  id stands for the identity of the object; func is   *)
(* the name of the called function for a Call and "" otherwise.  A call    *)
(* of a dx.op function carries the opcode as its first argument, so the    *)
(* C++ args[j] is args[j + 1] here.                                        *)
(***************************************************************************)
CreateInstruction(id, op, t, args) ==
  [id |-> id, op |-> op, func |-> "", dxop |-> "", type |-> t, args |-> args, align |-> 0,
   nsw |-> FALSE]

CreateCall(id, func, dxop, ret, args) ==
  [id |-> id, op |-> "Call", func |-> func, dxop |-> dxop, type |-> ret,
   args |-> <<DXOpArg>> \o args, align |-> 0, nsw |-> FALSE]

\* rdcarray::insert at the 0-based index idx
InsertAt(arr, idx, x) == SubSeq(arr, 1, idx) \o <<x>> \o SubSeq(arr, idx + 1, Len(arr))

\* f->instructions with inst inserted at the 0-based index idx
InsertInstruction(f, idx, inst) == InsertAt(f, idx, inst)

AddInstruction(f, inst) == Append(f, inst)

Log2Floor(n) == IF n >= 8 THEN 3 ELSE IF n >= 4 THEN 2 ELSE IF n >= 2 THEN 1 ELSE 0

(***************************************************************************)
(* PayloadBufferCopy.  ed is the part of the editor's and the caller's     *)
(* state that the copy reads and writes: the function's instruction list   *)
(* f, the insertion index curInst, the cursor uavByteOffset, the identity  *)
(* nextId of the next created instruction, the set decls of declared       *)
(* functions and the number errors of RDCERR reports.                      *)
(***************************************************************************)
BufferToPayload == "BufferToPayload"
PayloadToBuffer == "PayloadToBuffer"

\* the integer variant whatever the scalar is
makeBufferLoadStoreSuffixInt(type) == "i" \o ToString(type.bitWidth)

\* lines 55-58
makeBufferLoadStoreSuffix(type) ==
  (IF type.scalarType = "Float" THEN "f" ELSE "i") \o ToString(type.bitWidth)

LeafAlignment(memberType) == Max2(4, memberType.bitWidth \div 8)

\* the cursor raised to the next multiple of the leaf's alignment
AdvanceCursorAligned(uavByteOffset, memberType) ==
  Add32(uavByteOffset, U32(LeafAlignment(memberType)))

AdvanceCursor(uavByteOffset, memberType) ==
  Add32(uavByteOffset, U32(memberType.bitWidth \div 8))

ExtractValType(memberType) == i32

ResRetType(memberType) == StructT(<<memberType, memberType, memberType, memberType, i32>>)

CopyScalar(dir, ed, baseOffset, handle, memberType, gepChain) ==
  LET alignment == LeafAlignment(memberType)
      align == CreateConstant(U32(alignment))
      payloadGep == CreateConstantGEP(PointerT(memberType), gepChain)
      suffix == makeBufferLoadStoreSuffix(memberType)
      offset == [CreateInstruction(ed.nextId, "Add", i32,
                                   <<baseOffset, CreateConstant(ed.uavByteOffset)>>)
                 EXCEPT !.nsw = TRUE]
      srcRet == CreateCall(ed.nextId + 1, "dx.op.rawBufferLoad." \o suffix, "rawBufferLoad",
                           ResRetType(memberType),
                           <<handle, InstRef(offset), CreateUndef(i32), CreateConstant8(1), align>>)
      src == CreateInstruction(ed.nextId + 2, "ExtractVal", ExtractValType(memberType),
                               <<InstRef(srcRet), CreateLiteral(0)>>)
      store == [CreateInstruction(ed.nextId + 3, "Store", voidType, <<payloadGep, InstRef(src)>>)
                EXCEPT !.align = (Log2Floor(alignment) + 1) % 256]
      load == [CreateInstruction(ed.nextId + 1, "Load", memberType, <<payloadGep>>)
               EXCEPT !.align = (Log2Floor(alignment) + 1) % 256]
      storeBuf == CreateCall(ed.nextId + 2, "dx.op.rawBufferStore." \o suffix,
                             "rawBufferStore", voidType,
                             <<handle, InstRef(offset), CreateUndef(i32), InstRef(load),
                               CreateUndef(memberType), CreateUndef(memberType),
                               CreateUndef(memberType), CreateConstant8(1), align>>)
      c == ed.curInst
  IN  IF dir = BufferToPayload
      THEN [ed EXCEPT
             !.f = InsertInstruction(InsertInstruction(InsertInstruction(InsertInstruction(
                     ed.f, c, offset), c + 1, srcRet), c + 2, src), c + 3, store),
             !.curInst = c + 4,
             !.nextId = ed.nextId + 4,
             !.decls = ed.decls \cup {"dx.op.rawBufferLoad." \o suffix},
             !.uavByteOffset = AdvanceCursor(ed.uavByteOffset, memberType)]
      ELSE [ed EXCEPT
             !.f = InsertInstruction(InsertInstruction(InsertInstruction(
                     ed.f, c, load), c + 1, offset), c + 2, storeBuf),
             !.curInst = c + 3,
             !.nextId = ed.nextId + 3,
             !.decls = ed.decls \cup {"dx.op.rawBufferStore." \o suffix},
             !.uavByteOffset = AdvanceCursor(ed.uavByteOffset, memberType)]

RECURSIVE PayloadBufferCopy(_, _, _, _, _, _)
PayloadBufferCopy(dir, ed, baseOffset, handle, memberType, gepChain) ==
  IF memberType.type = "Scalar"
  THEN CopyScalar(dir, ed, baseOffset, handle, memberType, gepChain)
  ELSE IF memberType.type = "Array"
  THEN LET e[i \in 0..memberType.elemCount] ==
             IF i = 0 THEN ed
             ELSE PayloadBufferCopy(dir, e[i - 1], baseOffset, handle, memberType.inner[1],
                                    Append(gepChain, CreateConstant(U32(i - 1))))
       IN  e[memberType.elemCount]
  ELSE IF memberType.type = "Struct"
  THEN LET e[i \in 0..Len(memberType.members)] ==
             IF i = 0 THEN ed
             ELSE PayloadBufferCopy(dir, e[i - 1], baseOffset, handle, memberType.members[i],
                                    Append(gepChain, CreateConstant(U32(i - 1))))
       IN  e[Len(memberType.members)]
  ELSE [ed EXCEPT !.errors = ed.errors + 1]

(***************************************************************************)
(* Execution of an emitted instruction stream.  A run-time value is a      *)
(* sequence of cells [ty, b]: one cell for a scalar (b its bytes), one per *)
(* component for the result of a buffer load.  th is one thread: its       *)
(* group id gid, its flattened thread index tid and the values regs of     *)
(* the instructions it has executed.  mem is the memory: payload maps the  *)
(* index chain of a leaf of the groupshared payload variable to a cell,    *)
(* buf maps a byte address of the capture buffer to a byte.                *)
(***************************************************************************)
Cell(t, bytes) == [ty |-> t, b |-> bytes]

UndefByte == 0 - 1

ReadBytes(buf, addr, n) ==
  [i \in 1..n |-> LET a == Add32(addr, U32(i - 1))
                  IN  IF a \in DOMAIN buf THEN buf[a] ELSE UndefByte]

WriteBytes(buf, addr, bytes) ==
  LET at == [i \in 1..Len(bytes) |-> Add32(addr, U32(i - 1))]
      touched == {at[i] : i \in 1..Len(bytes)}
  IN  [a \in DOMAIN buf \cup touched |->
         IF a \in touched THEN bytes[CHOOSE i \in 1..Len(bytes) : at[i] = a] ELSE buf[a]]

\* the run-time value of an operand
Operand(v, th) ==
  IF v.k = "inst" THEN th.regs[v.v[1]]
  ELSE IF v.k = "const" THEN <<Cell(v.ty, v.v)>>
  ELSE <<Cell(v.ty, <<>>)>>

\* the index chain a pointer operand points at: a constant GEP, or the
\* result of a GEP instruction
Pointee(v, th) == IF v.k = "gep" THEN v.v ELSE th.regs[v.v[1]][1].b

IsBufferLoad(inst) == inst.op = "Call" /\ inst.dxop = "rawBufferLoad"

IsBufferStore(inst) == inst.op = "Call" /\ inst.dxop = "rawBufferStore"

\* the number of components a buffer access with this mask covers
MaskCount(mask) == (mask % 2) + ((mask \div 2) % 2) + ((mask \div 4) % 2) + ((mask \div 8) % 2)

\* the value an instruction yields when th executes it on mem
Result(inst, th, mem) ==
  IF inst.op = "Add"
  THEN <<Cell(i32, Add32(Operand(inst.args[1], th)[1].b, Operand(inst.args[2], th)[1].b))>>
  ELSE IF inst.op = "Mul"
  THEN <<Cell(i32, Mul32(Operand(inst.args[1], th)[1].b, Operand(inst.args[2], th)[1].b))>>
  ELSE IF inst.op = "IEqual"
  THEN <<Cell(i1, <<IF Operand(inst.args[1], th)[1].b = Operand(inst.args[2], th)[1].b
                    THEN 1 ELSE 0>>)>>
  ELSE IF inst.op = "ExtractVal"
  THEN <<Cell(inst.type, Operand(inst.args[1], th)[inst.args[2].v[1] + 1].b)>>
  ELSE IF inst.op = "GetElementPtr"
  THEN <<Cell(inst.type, [j \in 1..(Len(inst.args) - 1) |->
                            ToNat(Operand(inst.args[j + 1], th)[1].b)])>>
  ELSE IF inst.op = "Load"
  THEN <<mem.payload[Pointee(inst.args[1], th)]>>
  ELSE IF inst.op = "Call" /\ inst.dxop = "groupId"
  THEN <<Cell(i32, th.gid[ToNat(inst.args[2].v) + 1])>>
  ELSE IF inst.op = "Call" /\ inst.dxop = "flattenedThreadIdInGroup"
  THEN <<Cell(i32, U32(th.tid))>>
  ELSE IF IsBufferLoad(inst)
  THEN LET addr == Operand(inst.args[3], th)[1].b
           elemT == inst.type.members[1]
           w == elemT.bitWidth \div 8
       IN  [c \in 1..MaskCount(inst.args[5].v[1]) |->
              Cell(elemT, ReadBytes(mem.buf, Add32(addr, U32((c - 1) * w)), w))]
  ELSE <<Cell(inst.type, <<>>)>>

\* the memory after th has executed inst on mem
Effect(inst, th, mem) ==
  IF inst.op = "Store"
  THEN [mem EXCEPT !.payload[Pointee(inst.args[1], th)] = Operand(inst.args[2], th)[1]]
  ELSE IF IsBufferStore(inst)
  THEN [mem EXCEPT !.buf = WriteBytes(mem.buf, Operand(inst.args[3], th)[1].b,
                                      Operand(inst.args[5], th)[1].b)]
  ELSE mem

\* the thread after it has executed inst on mem
Executed(inst, th, mem) == [th EXCEPT !.regs = (inst.id :> Result(inst, th, mem)) @@ th.regs]

(***************************************************************************)
(* DXIL::Metadata.  A node is a constant (v its bytes), a string, a value  *)
(* that is no constant, a list of children, or NULL.                       *)
(***************************************************************************)
MdNode(k, v, str, children) == [k |-> k, v |-> v, str |-> str, children |-> children]

CreateMetadata == MdNode("list", <<>>, "", <<>>)
CreateConstantMetadata(bytes) == MdNode("const", bytes, "", <<>>)
CreateStringMetadata(str) == MdNode("str", <<>>, str, <<>>)
MdList(children) == MdNode("list", <<>>, "", children)
MdValue == MdNode("value", <<>>, "", <<>>)
MdNull == MdNode("null", <<>>, "", <<>>)

\* cast<Constant>(node->value)->getU32(): the low 32 bits of the constant
getU32(node) == Trunc32(node.v)

\* the 64-bit constant made from a uint32_t value
Constant64(value) == value \o <<0, 0, 0, 0>>

\* ShaderEntryTag::ShaderFlags and ShaderEntryTag::Amplification
ShaderFlagsTag == 0
AmplificationTag == 10

\* ResourceKind::RawBuffer and HandleKind::UAV
RawBuffer == 11
HandleKindUAV == 1

\* field ResField::ID of a resource record
ResFieldID == 1

\* the minor version alone
MinorIs6OrAbove(version) == version.Minor >= 6

\* lines 182-183 and 669-670
isShaderModel6_6OrAbove(version) ==
  version.Major > 6 \/ (version.Major = 6 /\ version.Minor >= 6)

\* lines 197-229: the functions the injector declares
InjectorDeclare(c) ==
  [c EXCEPT !.decls = @ \cup (IF isShaderModel6_6OrAbove(c.version)
                              THEN {"dx.op.createHandleFromBinding", "dx.op.annotateHandle"}
                              ELSE {"dx.op.createHandle"})
                        \cup {"dx.op.barrier", "dx.op.flattenedThreadIdInGroup.i32",
                              "dx.op.groupId.i32", "dx.op.rawBufferStore.i32"}]

\* lines 684-714: the functions the feeder declares
FeederDeclare(c) ==
  [c EXCEPT !.decls = @ \cup (IF isShaderModel6_6OrAbove(c.version)
                              THEN {"dx.op.createHandleFromBinding", "dx.op.annotateHandle"}
                              ELSE {"dx.op.createHandle"})
                        \cup {"dx.op.groupId.i32", "dx.op.rawBufferLoad.i32"}]

(***************************************************************************)
(* Declaring the capture buffer.  c is the program model under edit and    *)
(* the locals of the pass.                                                 *)
(***************************************************************************)
\* the number of records taken as the next slot
ScanUAVsCount(uavs, n) ==
  [regSlot |-> U32(n),
   warnings |-> Cardinality({i \in 1..n : uavs[i].children[ResFieldID].k # "const"})]

\* the loop over the existing UAV records: regSlot after records 1..n
ScanUAVs(uavs, n) ==
  LET r[i \in 0..n] ==
        IF i = 0 THEN [regSlot |-> U32(0), warnings |-> 0]
        ELSE LET slot == uavs[i].children[ResFieldID]
             IN  IF slot.k # "const"
                 THEN [r[i - 1] EXCEPT !.warnings = @ + 1]
                 ELSE [r[i - 1] EXCEPT !.regSlot = RDCMAX(Add32(getU32(slot), U32(1)), @)]
  IN  r[n]

\* the record with the base register 0
NewUAVRecordBase0(regSlot, space) ==
  MdList(<<CreateConstantMetadata(regSlot), MdValue, CreateStringMetadata(""),
           CreateConstantMetadata(space), CreateConstantMetadata(U32(0)),
           CreateConstantMetadata(U32(1)), CreateConstantMetadata(U32(RawBuffer)),
           CreateConstantMetadata(<<0>>), CreateConstantMetadata(<<0>>),
           CreateConstantMetadata(<<0>>), MdNull>>)

\* the record always given slot 0
NewUAVRecordFirst(regSlot, space) ==
  MdList(<<CreateConstantMetadata(U32(0)), MdValue, CreateStringMetadata(""),
           CreateConstantMetadata(space), CreateConstantMetadata(U32(1)),
           CreateConstantMetadata(U32(1)), CreateConstantMetadata(U32(RawBuffer)),
           CreateConstantMetadata(<<0>>), CreateConstantMetadata(<<0>>),
           CreateConstantMetadata(<<0>>), MdNull>>)

NewUAVRecord(regSlot, space) ==
  MdList(<<CreateConstantMetadata(regSlot),
           MdValue,
           CreateStringMetadata(""),
           CreateConstantMetadata(space),
           CreateConstantMetadata(U32(1)),
           CreateConstantMetadata(U32(1)),
           CreateConstantMetadata(U32(RawBuffer)),
           CreateConstantMetadata(<<0>>),
           CreateConstantMetadata(<<0>>),
           CreateConstantMetadata(<<0>>),
           MdNull>>)

DeclareUAV(c, space) ==
  LET resources == IF c.resources = <<>> THEN <<CreateMetadata>> ELSE c.resources
      reslist0 == resources[1]
      reslist1 == IF reslist0.children = <<>>
                  THEN [reslist0 EXCEPT !.children = <<MdNull, MdNull, MdNull, MdNull>>]
                  ELSE reslist0
      uavs == IF reslist1.children[2].k = "null" THEN CreateMetadata ELSE reslist1.children[2]
      scan == ScanUAVs(uavs.children, Len(uavs.children))
      uav == NewUAVRecord(scan.regSlot, space)
      uavs2 == [uavs EXCEPT !.children = Append(@, uav)]
      reslist2 == [reslist1 EXCEPT !.children[2] = uavs2]
  IN  [c EXCEPT !.resources = [resources EXCEPT ![1] = reslist2],
                !.regSlot = scan.regSlot,
                !.warnings = @ + scan.warnings]

(***************************************************************************)
(* The entry point tags, as the injector patches them.                     *)
(***************************************************************************)
\* v with the bits of the one-byte mask m set in its byte number n
OrByte(v, n, m) == [v EXCEPT ![n] = IF (@ \div m) % 2 = 1 THEN @ ELSE @ + m]

\* v with the bits of the one-byte mask m cleared in its byte number n
ClearByte(v, n, m) == [v EXCEPT ![n] = IF (@ \div m) % 2 = 1 THEN @ - m ELSE @]

\* the loop over the (tag, value) pairs of the tag list: the 0-based index
\* of the shader flags value (0 when there is none), the amplification
\* data (NULL when there is none) and the 0-based index it was found at
ScanTags(children) ==
  LET r[n \in 0..(Len(children) \div 2)] ==
        IF n = 0 THEN [flagsIndex |-> 0, shaderFlagsData |-> MdNull, ampData |-> MdNull,
                      ampIndex |-> 0]
        ELSE LET tag == getU32(children[2 * n - 1])
             IN  IF tag = U32(ShaderFlagsTag)
                 THEN [r[n - 1] EXCEPT !.flagsIndex = 2 * n - 1,
                                       !.shaderFlagsData = children[2 * n]]
                 ELSE IF tag = U32(AmplificationTag)
                 THEN [r[n - 1] EXCEPT !.ampData = children[2 * n], !.ampIndex = 2 * n - 1]
                 ELSE r[n - 1]
  IN  r[Len(children) \div 2]

InjectorFlags(shaderFlagsData) ==
  LET shaderFlagsValue == IF shaderFlagsData.k = "null" THEN U32(0) ELSE getU32(shaderFlagsData)
  IN  OrByte(OrByte(shaderFlagsValue, 1, 16), 3, 1)

\* a new shader flags pair put behind the pairs of the list
PatchTagListAtEnd(taglist, flagsIndex, shaderFlagsData) ==
  IF flagsIndex # 0
  THEN [taglist EXCEPT !.children[flagsIndex + 1] = shaderFlagsData]
  ELSE [taglist EXCEPT !.children =
          @ \o <<CreateConstantMetadata(U32(ShaderFlagsTag)), shaderFlagsData>>]

\* lines 352-371: the shader flags value replaced where it was, or a new
\* pair inserted at the head of the list
PatchTagList(taglist, flagsIndex, shaderFlagsData) ==
  IF flagsIndex # 0
  THEN [taglist EXCEPT !.children[flagsIndex + 1] = shaderFlagsData]
  ELSE [taglist EXCEPT !.children =
          InsertAt(InsertAt(@, 0, CreateConstantMetadata(U32(ShaderFlagsTag))), 1,
                   shaderFlagsData)]

\* lines 296-375: "failed" on a missing entry point list
InjectorEntryTags(c) ==
  IF c.entryPoints.k = "null"
  THEN [c EXCEPT !.status = "failed", !.errors = @ + 1, !.payloadSize = U32(0)]
  ELSE LET entry == c.entryPoints.children[1]
           taglist == IF entry.children[5].k = "null" THEN CreateMetadata ELSE entry.children[5]
           scan == ScanTags(taglist.children)
           shaderFlagsData ==
             CreateConstantMetadata(Constant64(InjectorFlags(scan.shaderFlagsData)))
           taglist2 == PatchTagList(taglist, scan.flagsIndex, shaderFlagsData)
           entry2 == [entry EXCEPT !.children[4] = c.resources[1], !.children[5] = taglist2]
       IN  [c EXCEPT !.entryPoints.children[1] = entry2,
                     !.entryName = entry.children[2].str,
                     !.status = IF scan.ampData.k = "null" THEN "crashed" ELSE @,
                     !.payloadSize = IF scan.ampData.k = "null" THEN U32(0)
                                     ELSE getU32(scan.ampData.children[2])]

\* editor.RegisterUAV(DXILResourceType::ByteAddressUAV, space, 1, 1, RawBuffer)
RegisterUAV(c, space) ==
  [c EXCEPT !.psvUAVs = Append(@, [type |-> "ByteAddressUAV", space |-> space, regBase |-> 1,
                                   regEnd |-> 1, kind |-> RawBuffer])]

\* editor.GetFunctionByName(entryName): "failed" when there is none
GetFunctionByName(c) ==
  IF c.fn.name = c.entryName THEN c
  ELSE [c EXCEPT !.status = "failed", !.errors = @ + 1]

(***************************************************************************)
(* The entry function, as the injector edits it.  c.fn.instructions is     *)
(* the flattened instruction stream and c.fn.blocks the list of blocks;    *)
(* block number k of the list holds the instructions after the k-th        *)
(* terminator of the stream.                                               *)
(***************************************************************************)
DispatchMeshName == "dx.op.dispatchMesh.struct.Payload"

IsDispatchMesh(inst) == inst.op = "Call" /\ inst.func = DispatchMeshName

IsTerminator(inst) == inst.op \in {"Branch", "Unreachable", "Switch", "Ret"}

\* lines 388-416: the first dispatchMesh call with 5 arguments whose last
\* argument is a global variable, looked for from the 1-based index i on
RECURSIVE FindDispatch(_, _)
FindDispatch(c, i) ==
  IF i > Len(c.fn.instructions) THEN c
  ELSE LET inst == c.fn.instructions[i]
       IN  IF ~IsDispatchMesh(inst) THEN FindDispatch(c, i + 1)
           ELSE IF Len(inst.args) # 5
           THEN FindDispatch([c EXCEPT !.errors = @ + 1], i + 1)
           ELSE IF inst.args[5].k # "global"
           THEN FindDispatch([c EXCEPT !.errors = @ + 1], i + 1)
           ELSE [c EXCEPT !.payloadFound = TRUE,
                          !.payloadVariable = inst.args[5],
                          !.payloadType = inst.args[5].ty.inner[1]]

ResBindType == StructT(<<i32, i32, i32, i8>>)
ResourcePropertiesType == StructT(<<i32, i32>>)
HandleType == StructT(<<PointerT(i8)>>)

\* lines 421-489: the handle, inserted at the head of the function
CreateHandle(c, space) ==
  IF ~isShaderModel6_6OrAbove(c.version)
  THEN LET handle == CreateCall(c.nextId, "dx.op.createHandle", "createHandle", HandleType,
                                <<CreateConstant8(HandleKindUAV), CreateConstant(c.regSlot),
                                  CreateConstant(U32(1)), CreateConstantBool(FALSE)>>)
       IN  [c EXCEPT !.fn.instructions = InsertInstruction(@, c.prelimInst, handle),
                     !.prelimInst = @ + 1,
                     !.nextId = @ + 1,
                     !.handle = InstRef(handle)]
  ELSE LET resBindConstant ==
             CreateStructConstant(ResBindType, U32(1) \o U32(1) \o space \o <<HandleKindUAV>>)
           unannotatedHandle ==
             CreateCall(c.nextId, "dx.op.createHandleFromBinding", "createHandleFromBinding",
                        HandleType,
                        <<resBindConstant, CreateConstant(U32(1)), CreateConstantBool(FALSE)>>)
           annotateConstant ==
             CreateStructConstant(ResourcePropertiesType, U32(4096 + RawBuffer) \o U32(0))
           handle == CreateCall(c.nextId + 1, "dx.op.annotateHandle", "annotateHandle",
                                HandleType, <<InstRef(unannotatedHandle), annotateConstant>>)
       IN  [c EXCEPT !.fn.instructions =
                       InsertInstruction(InsertInstruction(@, c.prelimInst, unannotatedHandle),
                                         c.prelimInst + 1, handle),
                     !.prelimInst = @ + 2,
                     !.nextId = @ + 2,
                     !.handle = InstRef(handle)]

\* the x component whatever is asked for
GroupIdCallX(id, component) ==
  CreateCall(id, "dx.op.groupId.i32", "groupId", i32, <<CreateConstant(U32(0))>>)

GroupIdCall(id, component) ==
  CreateCall(id, "dx.op.groupId.i32", "groupId", i32, <<CreateConstant(U32(component))>>)

\* a slot without the header
SlotSizeNoHeader(payloadSize) == payloadSize

\* the size of one slot of the capture buffer
SlotSize(payloadSize) == Add32(payloadSize, U32(16))

\* lines 491-536: group id, flat thread id and base offset, inserted after
\* the handle
InjectorSlot(c, dispatchDim) ==
  LET n == c.nextId
      groupX == GroupIdCall(n, 0)
      groupY == GroupIdCall(n + 1, 1)
      groupZ == GroupIdCall(n + 2, 2)
      flatId == CreateCall(n + 3, "dx.op.flattenedThreadIdInGroup.i32",
                           "flattenedThreadIdInGroup", i32, <<>>)
      dimX == CreateConstant(dispatchDim[1])
      dimY == CreateConstant(dispatchDim[2])
      dimXY == CreateInstruction(n + 4, "Mul", i32, <<dimX, dimY>>)
      groupYMul == CreateInstruction(n + 5, "Mul", i32, <<InstRef(groupY), dimX>>)
      groupZMul == CreateInstruction(n + 6, "Mul", i32, <<InstRef(groupZ), InstRef(dimXY)>>)
      groupYZAdd == CreateInstruction(n + 7, "Add", i32,
                                      <<InstRef(groupYMul), InstRef(groupZMul)>>)
      flatIndex == CreateInstruction(n + 8, "Add", i32, <<InstRef(groupX), InstRef(groupYZAdd)>>)
      baseOffset == CreateInstruction(n + 9, "Mul", i32,
                                      <<InstRef(flatIndex),
                                        CreateConstant(SlotSize(c.payloadSize))>>)
      new == <<groupX, groupY, groupZ, flatId, dimXY, groupYMul, groupZMul, groupYZAdd,
               flatIndex, baseOffset>>
      p == c.prelimInst
  IN  [c EXCEPT !.fn.instructions = SubSeq(@, 1, p) \o new \o SubSeq(@, p + 1, Len(@)),
                !.prelimInst = @ + 10,
                !.nextId = @ + 10,
                !.flatId = InstRef(flatId),
                !.flatIndex = InstRef(flatIndex),
                !.baseOffset = InstRef(baseOffset)]

\* the copies of the payload members n-1..0
CopyMembersReversed(dir, ed, baseOffset, handle, payloadType, variable, n) ==
  LET e[m \in 0..n] ==
        IF m = 0 THEN ed
        ELSE PayloadBufferCopy(dir, e[m - 1], baseOffset, handle, payloadType.members[n + 1 - m],
                               <<variable, CreateConstant(U32(0)), CreateConstant(U32(n - m))>>)
  IN  e[n]

\* the copies of the payload members 0..n-1, the cursor starting at 16
CopyMembers(dir, ed, baseOffset, handle, payloadType, variable, n) ==
  LET e[m \in 0..n] ==
        IF m = 0 THEN ed
        ELSE PayloadBufferCopy(dir, e[m - 1], baseOffset, handle, payloadType.members[m],
                               <<variable, CreateConstant(U32(0)), CreateConstant(U32(m - 1))>>)
  IN  e[n]

HeaderStore(id, handle, offset, value) ==
  CreateCall(id, "dx.op.rawBufferStore.i32", "rawBufferStore", voidType,
             <<handle, offset, CreateUndef(i32), value, CreateUndef(i32), CreateUndef(i32),
               CreateUndef(i32), CreateConstant8(1), CreateConstant(U32(4))>>)

\* only the x and y arguments forced to zero
PatchDispatchXY(inst) ==
  [inst EXCEPT !.args[2] = CreateConstant(U32(0)), !.args[3] = CreateConstant(U32(0))]

\* the dispatch call with its dimension arguments forced to zero and its
\* payload argument to undef
PatchDispatchPayload(inst) ==
  [inst EXCEPT !.args[2] = CreateConstant(U32(0)),
               !.args[3] = CreateConstant(U32(0)),
               !.args[4] = CreateConstant(U32(0)),
               !.args[5] = CreateUndef(inst.args[5].ty)]

\* the dispatch call with its dimension arguments forced to zero
PatchDispatch(inst) ==
  [inst EXCEPT !.args[2] = CreateConstant(U32(0)),
               !.args[3] = CreateConstant(U32(0)),
               !.args[4] = CreateConstant(U32(0))]

\* a branch to the continue block for thread 0 and to the capture block
\* for the others
ThreadBranchSwapped(id, trueBlock, falseBlock, cond) ==
  CreateInstruction(id, "Branch", voidType, <<BlockRef(falseBlock), BlockRef(trueBlock), cond>>)

\* lines 585-587: the branch to the capture block for thread 0 and to the
\* continue block for the others
ThreadBranch(id, trueBlock, falseBlock, cond) ==
  CreateInstruction(id, "Branch", voidType, <<BlockRef(trueBlock), BlockRef(falseBlock), cond>>)

\* lines 550-635: the comparison with thread 0, the two new blocks, the
\* conditional branch, the barrier and the stores of the dispatch
\* dimensions, inserted before the dispatch call found at the 0-based
\* index i of the stream, in the block number curBlock of the block list
SplitHead(c, i, curBlock) ==
  LET inst == c.fn.instructions[i + 1]
      n == c.nextId
      threadIsZero == CreateInstruction(n, "IEqual", i1, <<c.flatId, CreateConstant(U32(0))>>)
      trueBlock == c.nextBlock
      falseBlock == c.nextBlock + 1
      blocks == InsertAt(InsertAt(c.fn.blocks, curBlock + 1, trueBlock), curBlock + 2,
                         falseBlock)
      branch == ThreadBranch(n + 1, trueBlock, falseBlock, InstRef(threadIsZero))
      barrier == CreateCall(n + 2, "dx.op.barrier", "barrier", voidType,
                            <<CreateConstant(U32(9))>>)
      storeX == HeaderStore(n + 3, c.handle, c.baseOffset, inst.args[2])
      yOffset == CreateInstruction(n + 4, "Add", i32, <<c.baseOffset, CreateConstant(U32(4))>>)
      storeY == HeaderStore(n + 5, c.handle, InstRef(yOffset), inst.args[3])
      zOffset == CreateInstruction(n + 6, "Add", i32, <<c.baseOffset, CreateConstant(U32(8))>>)
      storeZ == HeaderStore(n + 7, c.handle, InstRef(zOffset), inst.args[4])
      new == <<threadIsZero, branch, barrier, storeX, yOffset, storeY, zOffset, storeZ>>
  IN  [c EXCEPT !.fn.instructions = SubSeq(@, 1, i) \o new \o SubSeq(@, i + 1, Len(@)),
                !.fn.blocks = blocks,
                !.nextBlock = @ + 2,
                !.nextId = n + 8]

\* lines 550-658: the split at the dispatch call found at the 0-based
\* index i of the stream, in the block number curBlock of the block list
SplitAt(c, i, curBlock) ==
  LET falseBlock == c.nextBlock + 1
      ed1 == CHOOSE e \in {CopyMembers(PayloadToBuffer,
                                       [f |-> h.fn.instructions, curInst |-> i + 8,
                                        uavByteOffset |-> U32(16), nextId |-> h.nextId,
                                        decls |-> c.decls, errors |-> c.errors],
                                       c.baseOffset, c.handle, c.payloadType,
                                       c.payloadVariable, Len(c.payloadType.members)) :
                             h \in {SplitHead(c, i, curBlock)}} : TRUE
      toFalse == CreateInstruction(ed1.nextId, "Branch", voidType, <<BlockRef(falseBlock)>>)
      f2 == InsertInstruction(ed1.f, ed1.curInst, toFalse)
      at == ed1.curInst + 1
  IN  [c |-> [c EXCEPT !.fn.instructions = [f2 EXCEPT ![at + 1] = PatchDispatch(@)],
                       !.fn.blocks = SplitHead(c, i, curBlock).fn.blocks,
                       !.nextBlock = @ + 2,
                       !.nextId = ed1.nextId + 1,
                       !.decls = ed1.decls,
                       !.errors = ed1.errors],
       i |-> at,
       curBlock |-> curBlock + 2]

\* lines 538-660: the loop over the instruction stream, from the 0-based
\* index i on; "crashed" where a dispatch call is met and none gave a
\* payload type: the head of the split is emitted and payloadType is NULL
\* at line 640
RECURSIVE SplitLoop(_, _, _)
SplitLoop(c, i, curBlock) ==
  IF i >= Len(c.fn.instructions) THEN c
  ELSE LET inst == c.fn.instructions[i + 1]
           block == IF IsTerminator(inst) THEN curBlock + 1 ELSE curBlock
       IN  IF ~IsDispatchMesh(inst) THEN SplitLoop(c, i + 1, block)
           ELSE IF ~c.payloadFound
           THEN [SplitHead(c, i, block) EXCEPT !.status = "crashed"]
           ELSE LET r == SplitAt(c, i, block)
                IN  SplitLoop(r.c, r.i + 1, r.curBlock)

(***************************************************************************)
(* The feeder: ConvertToFixedDXILAmpFeeder.                                *)
(***************************************************************************)
FeederFlags(shaderFlagsData) == ClearByte(InjectorFlags(shaderFlagsData), 3, 8)

\* the amplification data with 16 more bytes and the thread counts it had
PatchAmpDataSizeOnly(ampData) ==
  [ampData EXCEPT
     !.children[2] = CreateConstantMetadata(SlotSize(getU32(ampData.children[2])))]

\* lines 863-871: the amplification data with one thread per group and 16
\* more bytes
PatchAmpData(ampData) ==
  [ampData EXCEPT
     !.children[1] = MdList(<<CreateConstantMetadata(U32(1)), CreateConstantMetadata(U32(1)),
                              CreateConstantMetadata(U32(1))>>),
     !.children[2] = CreateConstantMetadata(SlotSize(getU32(ampData.children[2])))]

\* lines 779-872: "failed" on a missing entry point list
FeederEntryTags(c) ==
  IF c.entryPoints.k = "null"
  THEN [c EXCEPT !.status = "failed", !.errors = @ + 1, !.payloadSize = U32(0)]
  ELSE LET entry == c.entryPoints.children[1]
           taglist == IF entry.children[5].k = "null" THEN CreateMetadata ELSE entry.children[5]
           scan == ScanTags(taglist.children)
           shaderFlagsData ==
             CreateConstantMetadata(Constant64(FeederFlags(scan.shaderFlagsData)))
           taglist2 == PatchTagList(taglist, scan.flagsIndex, shaderFlagsData)
           ampAt == scan.ampIndex + 1 + (IF scan.flagsIndex # 0 THEN 0 ELSE 2)
           taglist3 == IF scan.ampData.k = "null" THEN taglist2
                       ELSE [taglist2 EXCEPT !.children[ampAt] = PatchAmpData(scan.ampData)]
           entry2 == [entry EXCEPT !.children[4] = c.resources[1], !.children[5] = taglist3]
       IN  [c EXCEPT !.entryPoints.children[1] = entry2,
                     !.entryName = entry.children[2].str,
                     !.status = IF scan.ampData.k = "null" THEN "crashed" ELSE @,
                     !.payloadSize = IF scan.ampData.k = "null" THEN U32(0)
                                     ELSE getU32(scan.ampData.children[2])]

\* lines 874-882: the PSV0 blob and the global flags
FeederPSV(c, space) ==
  [RegisterUAV(c, space) EXCEPT !.psvNumThreads = <<1, 1, 1>>,
                                !.psvPayloadSize = SlotSize(c.payloadSize),
                                !.globalFlags = @ \ {"WaveOps"}]

\* four more members on the payload type, the body left as it was
FeederRebuildKeepBody(c) ==
  IF ~c.payloadFound THEN [c EXCEPT !.status = "crashed"]
  ELSE LET t == StructT(c.payloadType.members \o <<i32, i32, i32, i32>>)
       IN  [c EXCEPT !.payloadType = t, !.payloadVariable = PayloadVariable(t)]

\* lines 922-929: four more members on the payload type and an empty body;
\* "crashed" when no dispatchMesh call gave a payload type
FeederRebuild(c) ==
  IF ~c.payloadFound THEN [c EXCEPT !.status = "crashed"]
  ELSE LET t == StructT(c.payloadType.members \o <<i32, i32, i32, i32>>)
       IN  [c EXCEPT !.payloadType = t,
                     !.payloadVariable = PayloadVariable(t),
                     !.fn.instructions = <<>>,
                     !.fn.blocks = SubSeq(@, 1, 1)]

\* lines 931-993: the handle, appended to the empty body
FeederHandle(c, space) == CreateHandle([c EXCEPT !.prelimInst = Len(c.fn.instructions)], space)

\* lines 997-1042: group id, base offset, and the load of the slot's header
FeederSlot(c, dispatchDim) ==
  LET n == c.nextId
      groupX == GroupIdCall(n, 0)
      groupY == GroupIdCall(n + 1, 1)
      groupZ == GroupIdCall(n + 2, 2)
      groupYMul == CreateInstruction(n + 3, "Mul", i32,
                                     <<InstRef(groupY), CreateConstant(dispatchDim[1])>>)
      groupZMul == CreateInstruction(n + 4, "Mul", i32,
                                     <<InstRef(groupZ),
                                       CreateConstant(Mul32(dispatchDim[1], dispatchDim[2]))>>)
      groupYZAdd == CreateInstruction(n + 5, "Add", i32,
                                      <<InstRef(groupYMul), InstRef(groupZMul)>>)
      flatIndex == CreateInstruction(n + 6, "Add", i32, <<InstRef(groupX), InstRef(groupYZAdd)>>)
      baseOffset == CreateInstruction(n + 7, "Mul", i32,
                                      <<InstRef(flatIndex),
                                        CreateConstant(SlotSize(c.payloadSize))>>)
      dimAndOffset == CreateCall(n + 8, "dx.op.rawBufferLoad.i32", "rawBufferLoad",
                                 ResRetType(i32),
                                 <<c.handle, InstRef(baseOffset), CreateUndef(i32),
                                   CreateConstant8(15), CreateConstant(U32(4))>>)
      ext == [k \in 0..3 |-> CreateInstruction(n + 9 + k, "ExtractVal", i32,
                                               <<InstRef(dimAndOffset), CreateLiteral(k)>>)]
      new == <<groupX, groupY, groupZ, groupYMul, groupZMul, groupYZAdd, flatIndex, baseOffset,
               dimAndOffset, ext[0], ext[1], ext[2], ext[3]>>
  IN  [c EXCEPT !.fn.instructions = @ \o new,
                !.nextId = @ + 13,
                !.flatIndex = InstRef(flatIndex),
                !.baseOffset = InstRef(baseOffset),
                !.srcs = <<InstRef(ext[0]), InstRef(ext[1]), InstRef(ext[2]), InstRef(ext[3])>>]

\* the store of srcs[i] to the member number i
FeederStoreFront(c, id, i) ==
  [CreateInstruction(id, "Store", voidType,
                     <<CreateConstantGEP(PointerT(i32),
                                         <<c.payloadVariable, CreateConstant(U32(0)),
                                           CreateConstant(U32(i))>>),
                       c.srcs[i + 1]>>)
   EXCEPT !.align = 4]

\* lines 1054-1071: the store of srcs[i] to the i-th appended member
FeederStore(c, id, i) ==
  [CreateInstruction(id, "Store", voidType,
                     <<CreateConstantGEP(PointerT(i32),
                                         <<c.payloadVariable, CreateConstant(U32(0)),
                                           CreateConstant(U32(Len(c.payloadType.members) - 4 + i))>>),
                       c.srcs[i + 1]>>)
   EXCEPT !.align = 4]

\* a cursor that starts at the slot's header
FeederCursorAtHeader == U32(0)

\* line 1046: the cursor of the feeder's copies starts behind the header
FeederCursorStart == U32(16)

\* a dispatch of one group of meshes whatever the header holds
FeederDispatchOnes(c, id) ==
  CreateCall(id, DispatchMeshName, "dispatchMesh", voidType,
             <<CreateConstant(U32(1)), CreateConstant(U32(1)), CreateConstant(U32(1)),
               c.payloadVariable>>)

\* lines 1073-1074: the dispatch of the dimensions loaded from the header
FeederDispatch(c, id) ==
  CreateCall(id, DispatchMeshName, "dispatchMesh", voidType,
             <<c.srcs[1], c.srcs[2], c.srcs[3], c.payloadVariable>>)

\* lines 1044-1075: the copies into the payload, the stores of the header,
\* the dispatch and the return
FeederBody(c) ==
  LET ed0 == [f |-> c.fn.instructions, curInst |-> Len(c.fn.instructions),
              uavByteOffset |-> FeederCursorStart, nextId |-> c.nextId, decls |-> c.decls,
              errors |-> c.errors]
      ed1 == CopyMembers(BufferToPayload, ed0, c.baseOffset, c.handle, c.payloadType,
                         c.payloadVariable, Len(c.payloadType.members) - 4)
      n == ed1.nextId
      dispatch == FeederDispatch(c, n + 4)
      ret == CreateInstruction(n + 5, "Ret", voidType, <<>>)
  IN  [c EXCEPT !.fn.instructions =
                  ed1.f \o <<FeederStore(c, n, 0), FeederStore(c, n + 1, 1),
                             FeederStore(c, n + 2, 2), FeederStore(c, n + 3, 3), dispatch, ret>>,
                !.nextId = n + 6,
                !.decls = ed1.decls,
                !.errors = ed1.errors]

(***************************************************************************)
(* The leaves of a type, listed independently of the copier: depth first,  *)
(* array elements and struct members from left to right.  Each entry is    *)
(* the index chain of the leaf below prefix and its scalar type.           *)
(***************************************************************************)
RECURSIVE Leaves(_, _)
Leaves(t, prefix) ==
  IF t.type = "Scalar" THEN <<[path |-> prefix, ty |-> t]>>
  ELSE IF t.type = "Array"
  THEN LET l[i \in 0..t.elemCount] ==
             IF i = 0 THEN <<>> ELSE l[i - 1] \o Leaves(t.inner[1], Append(prefix, i - 1))
       IN  l[t.elemCount]
  ELSE IF t.type = "Struct"
  THEN LET l[i \in 0..Len(t.members)] ==
             IF i = 0 THEN <<>> ELSE l[i - 1] \o Leaves(t.members[i], Append(prefix, i - 1))
       IN  l[Len(t.members)]
  ELSE <<>>

\* the packed size of the first n leaves
PackedBytes(ls, n) ==
  LET s[i \in 0..n] == IF i = 0 THEN 0 ELSE s[i - 1] + ls[i].ty.bitWidth \div 8
  IN  s[n]

\* only scalars, arrays and structs
RECURSIVE Supported(_)
Supported(t) ==
  \/ t.type = "Scalar"
  \/ t.type = "Array" /\ (t.elemCount = 0 \/ Supported(t.inner[1]))
  \/ t.type = "Struct" /\ \A i \in 1..Len(t.members) : Supported(t.members[i])

(***************************************************************************)
(* SpecCopy: PayloadBufferCopy applied to one member type, the emitted     *)
(* code run, then the opposite copy emitted at the same base offset and    *)
(* cursor and run.                                                         *)
(***************************************************************************)
VARIABLES cpPhase, cpRound, cpDir, cpType, cpBase, cpBefore, cpEd, cpMem, cpOrig, cpThread, cpPc

copyVars ==
  <<cpPhase, cpRound, cpDir, cpType, cpBase, cpBefore, cpEd, cpMem, cpOrig, cpThread, cpPc>>

\* the passes: the input program model and the arguments of a pass, the
\* program model the injector left and the one the feeder left
VARIABLES input, inj, fed

editVars == <<input, inj, fed>>

\* the runs of the two programs: how a barrier that only some threads of a
\* group reach behaves, the threads of the capture dispatch and the
\* groupshared payload of each group, the capture buffer, the threads of
\* the feeder dispatch and their payloads
VARIABLES xMode, xThreads, xPayload, xBuf, xFeed, xFeedPayload

execVars == <<xMode, xThreads, xPayload, xBuf, xFeed, xFeedPayload>>

\* the stream-out buffer of the replay and the resize-and-retry loop of
\* InitPostVSBuffers: where the loop stands, the buffer's size, the output
\* size of the last draw, the number of times the loop body has run, the
\* error status returned, the output size of the first draw and whether
\* every draw since has reported the same
VARIABLES soPc, m_SOBufferSize, outputSize, soRuns, soStatus, soFirst, soSame

soVars == <<soPc, m_SOBufferSize, outputSize, soRuns, soStatus, soFirst, soSame>>

vars == <<copyVars, editVars, execVars, soVars>>

SOIdle ==
  /\ soPc = "idle"
  /\ m_SOBufferSize = 0
  /\ outputSize = 0
  /\ soRuns = 0
  /\ soStatus = ""
  /\ soFirst = 0
  /\ soSame = TRUE

\* no program model
NoProgram == [status |-> "none"]

EditIdle == input = NoProgram /\ inj = NoProgram /\ fed = NoProgram

ExecIdle ==
  /\ xMode = "idle"
  /\ xThreads = <<>>
  /\ xPayload = <<>>
  /\ xBuf = <<>>
  /\ xFeed = <<>>
  /\ xFeedPayload = <<>>

\* array lengths of the member types tried
MaxElems == 2

CopyTypes ==
  {i8, i16, i32, i64, f32, f64,
   ArrayT(i32, MaxElems), ArrayT(i16, 0), StructT(<<>>),
   StructT(<<f32, ArrayT(i32, MaxElems)>>),
   StructT(<<i8, i64, ArrayT(StructT(<<i16, f64>>), MaxElems)>>),
   StructT(<<ArrayT(f32, 0), i16, StructT(<<>>), i8>>),
   StructT(<<f16, i16, f32, i32>>)}

CopyStarts == {0, 16}

CopyBases == {0, 48}

\* the function the copy is inserted into: a handle, the base offset, a return
CopyHandle == CreateCall(1, "dx.op.createHandle", "createHandle", voidType, <<>>)

CopyBaseInst(base) ==
  CreateInstruction(2, "Add", i32, <<CreateConstant(U32(base)), CreateConstant(U32(0))>>)

CopyFunction(base) == <<CopyHandle, CopyBaseInst(base), CreateInstruction(3, "Ret", voidType, <<>>)>>

CopyChain(t) == <<PayloadVariable(t), CreateConstant(U32(0)), CreateConstant(U32(0))>>

CopyEd(base, start) ==
  [f |-> CopyFunction(base), curInst |-> 2, uavByteOffset |-> U32(start), nextId |-> 4,
   decls |-> {}, errors |-> 0]

CopyThread == [gid |-> <<U32(0), U32(0), U32(0)>>, tid |-> 0, regs |-> <<>>]

\* test data: every byte of every leaf differs from its neighbours
LeafBytes(k, t) == [j \in 1..(t.bitWidth \div 8) |-> (k * 16 + j) % 256]

FilledPayload(t) ==
  LET ls == Leaves(t, <<0, 0>>)
  IN  [p \in {ls[k].path : k \in 1..Len(ls)} |->
         LET k == CHOOSE k \in 1..Len(ls) : ls[k].path = p
         IN  Cell(ls[k].ty, LeafBytes(k, ls[k].ty))]

EmptyPayload(t) ==
  LET ls == Leaves(t, <<0, 0>>)
  IN  [p \in {ls[k].path : k \in 1..Len(ls)} |-> Cell(voidType, <<>>)]

FilledBuffer(t, base, start) ==
  LET ls == Leaves(t, <<0, 0>>)
      n == PackedBytes(ls, Len(ls))
  IN  [a \in {U32(base + start + i) : i \in 0..(n - 1)} |->
         LET i == CHOOSE i \in 0..(n - 1) : U32(base + start + i) = a
         IN  (i * 7 + 3) % 256]

EmptyBuffer == [a \in {} |-> 0]

CopyInit ==
  /\ SOIdle
  /\ cpPhase = "ready"
  /\ cpRound = 1
  /\ cpDir \in {BufferToPayload, PayloadToBuffer}
  /\ cpType \in CopyTypes
  /\ cpBase \in CopyBases
  /\ \E start \in CopyStarts :
       /\ cpEd = CopyEd(cpBase, start)
       /\ cpMem = IF cpDir = PayloadToBuffer
                  THEN [payload |-> FilledPayload(cpType), buf |-> EmptyBuffer]
                  ELSE [payload |-> EmptyPayload(cpType),
                        buf |-> FilledBuffer(cpType, cpBase, start)]
  /\ cpBefore = cpEd
  /\ cpOrig = cpMem
  /\ cpThread = CopyThread
  /\ cpPc = 1
  /\ EditIdle
  /\ ExecIdle

\* one call of PayloadBufferCopy
Copy ==
  /\ cpPhase = "ready"
  /\ cpBefore' = cpEd
  /\ cpEd' = PayloadBufferCopy(cpDir, cpEd, InstRef(cpEd.f[2]), InstRef(cpEd.f[1]), cpType,
                               CopyChain(cpType))
  /\ cpPhase' = "emitted"
  /\ cpThread' = CopyThread
  /\ cpPc' = 1
  /\ UNCHANGED <<cpRound, cpDir, cpType, cpBase, cpMem, cpOrig>>
  /\ UNCHANGED <<editVars, execVars, soVars>>

\* the thread executes the next instruction of the function
StepCopy ==
  /\ cpPhase = "emitted"
  /\ cpPc <= Len(cpEd.f)
  /\ cpThread' = Executed(cpEd.f[cpPc], cpThread, cpMem)
  /\ cpMem' = Effect(cpEd.f[cpPc], cpThread, cpMem)
  /\ cpPc' = cpPc + 1
  /\ UNCHANGED <<cpPhase, cpRound, cpDir, cpType, cpBase, cpBefore, cpEd, cpOrig>>
  /\ UNCHANGED <<editVars, execVars, soVars>>

\* the thread has returned
EndCopy ==
  /\ cpPhase = "emitted"
  /\ cpPc > Len(cpEd.f)
  /\ cpPhase' = "ran"
  /\ UNCHANGED <<cpRound, cpDir, cpType, cpBase, cpBefore, cpEd, cpMem, cpOrig, cpThread, cpPc>>
  /\ UNCHANGED <<editVars, execVars, soVars>>

\* the opposite copy is set up at the same base offset and cursor; the
\* side that was the source of the first copy is forgotten
Turn ==
  /\ cpPhase = "ran"
  /\ cpRound = 1
  /\ cpRound' = 2
  /\ cpPhase' = "ready"
  /\ cpDir' = IF cpDir = PayloadToBuffer THEN BufferToPayload ELSE PayloadToBuffer
  /\ cpEd' = [cpBefore EXCEPT !.nextId = cpEd.nextId]
  /\ cpMem' = IF cpDir = PayloadToBuffer
              THEN [cpMem EXCEPT !.payload = EmptyPayload(cpType)]
              ELSE [cpMem EXCEPT !.buf = EmptyBuffer]
  /\ UNCHANGED <<cpType, cpBase, cpBefore, cpOrig, cpThread, cpPc>>
  /\ UNCHANGED <<editVars, execVars, soVars>>

CopyNext == Copy \/ StepCopy \/ EndCopy \/ Turn

SpecCopy == CopyInit /\ [][CopyNext]_vars

(***************************************************************************)
(* SpecEdit: each pass applied to an input program.  The inputs vary the   *)
(* shader model, the resource list, the entry point's tags, the payload    *)
(* type, the shape of the entry function and the dispatch size.            *)
(***************************************************************************)
\* the largest slot id of an existing UAV record
MaxSlot == 2

\* the largest number of existing UAV records
MaxUAVs == 2

ExistingUAV(id) ==
  MdList(<<id, MdValue, CreateStringMetadata("u"), CreateConstantMetadata(U32(0)),
           CreateConstantMetadata(U32(0)), CreateConstantMetadata(U32(1)),
           CreateConstantMetadata(U32(RawBuffer)), CreateConstantMetadata(<<0>>),
           CreateConstantMetadata(<<0>>), CreateConstantMetadata(<<0>>), MdNull>>)

SlotIds == {CreateConstantMetadata(U32(k)) : k \in 0..MaxSlot} \cup {MdValue}

UAVLists == UNION {[1..n -> {ExistingUAV(id) : id \in SlotIds}] : n \in 0..MaxUAVs}

\* dx.resources: empty, with an empty resource list, without a UAV list,
\* or with a UAV list
ResourceInputs ==
  {<<>>, <<MdList(<<>>)>>, <<MdList(<<MdNull, MdNull, MdNull, MdNull>>)>>}
    \cup {<<MdList(<<MdNull, MdList(l), MdNull, MdNull>>)>> : l \in UAVLists}

\* the size of a payload in groupshared memory: members at their natural
\* alignment
RECURSIVE AlignOf(_)
AlignOf(t) ==
  IF t.type = "Scalar" THEN Max2(1, t.bitWidth \div 8)
  ELSE IF t.type \in {"Array", "Vector"} THEN AlignOf(t.inner[1])
  ELSE LET a[i \in 0..Len(t.members)] ==
             IF i = 0 THEN 1 ELSE Max2(a[i - 1], AlignOf(t.members[i]))
       IN  a[Len(t.members)]

RoundUp(n, a) == ((n + a - 1) \div a) * a

RECURSIVE SizeOf(_)
SizeOf(t) ==
  IF t.type = "Scalar" THEN t.bitWidth \div 8
  ELSE IF t.type \in {"Array", "Vector"} THEN t.elemCount * SizeOf(t.inner[1])
  ELSE LET o[i \in 0..Len(t.members)] ==
             IF i = 0 THEN 0
             ELSE RoundUp(o[i - 1], AlignOf(t.members[i])) + SizeOf(t.members[i])
       IN  RoundUp(o[Len(t.members)], AlignOf(t))

\* the amplification tag's data: the thread group size and the payload size
AmpDataOf(t, threads) ==
  MdList(<<MdList(<<CreateConstantMetadata(U32(threads)), CreateConstantMetadata(U32(1)),
                    CreateConstantMetadata(U32(1))>>),
           CreateConstantMetadata(U32(SizeOf(t)))>>)

AmpData(t) == AmpDataOf(t, 2)

\* 64-bit shader flags with the wave ops flag and a flag above bit 31
FlagsData == CreateConstantMetadata(<<0, 0, 8, 0, 1, 0, 0, 0>>)

TagLists(t) ==
  LET amp == <<CreateConstantMetadata(U32(AmplificationTag)), AmpData(t)>>
      flags == <<CreateConstantMetadata(U32(ShaderFlagsTag)), FlagsData>>
  IN  {MdList(amp), MdList(flags \o amp), MdList(amp \o flags), MdList(flags), MdNull}

EntryName == "main"

EntryPointInputs(t) ==
  {MdNull} \cup
  {MdList(<<MdList(<<MdValue, CreateStringMetadata(EntryName), MdNull, MdNull, tags>>)>>) :
     tags \in TagLists(t)}

\* the payload types tried: the last one has a member that is no scalar,
\* array or struct
EditTypes ==
  {StructT(<<i32>>), StructT(<<f32, ArrayT(i32, MaxElems)>>), StructT(<<i16, i64>>),
   StructT(<<i32, VectorT(f32, 2), i16>>)}

GepAt(t, path) == [k |-> "gep", ty |-> PointerT(t), v |-> path]

TypedConstant(t, bytes) == [k |-> "const", ty |-> t, v |-> bytes]

\* the dispatch size the original shader asks for: constants, or values
\* it computes
OrigDimX == CreateInstruction(1, "Add", i32, <<CreateConstant(U32(1)), CreateConstant(U32(2))>>)

DispatchArgs ==
  {<<CreateConstant(U32(3)), CreateConstant(U32(5)), CreateConstant(U32(7))>>,
   <<InstRef(OrigDimX), CreateConstant(U32(1)), CreateConstant(U32(0))>>}

\* an entry function: it computes a dimension, the threads store every
\* leaf of the payload, it dispatches and returns; with lead, an earlier
\* block that branches to this one comes first
OrigFunction(t, args, lead) ==
  LET ls == Leaves(t, <<0>>)
      stores == [k \in 1..Len(ls) |->
                   CreateInstruction(k + 2, "Store", voidType,
                                     <<GepAt(ls[k].ty, ls[k].path),
                                       TypedConstant(ls[k].ty, LeafBytes(k, ls[k].ty))>>)]
      dispatch == CreateCall(Len(ls) + 3, DispatchMeshName, "dispatchMesh", voidType,
                             <<args[1], args[2], args[3], PayloadVariable(t)>>)
      ret == CreateInstruction(Len(ls) + 4, "Ret", voidType, <<>>)
      branch == CreateInstruction(2, "Branch", voidType, <<BlockRef(1)>>)
  IN  [name |-> EntryName,
       instructions |-> (IF lead THEN <<branch>> ELSE <<>>) \o <<OrigDimX>> \o stores
                        \o <<dispatch, ret>>,
       blocks |-> IF lead THEN <<0, 1>> ELSE <<0>>]

FunctionInputs(t) == {OrigFunction(t, args, lead) : args \in DispatchArgs, lead \in BOOLEAN}

\* the arguments of a dispatch call the passes do not accept: no call at
\* all, a call with one argument too many, a call whose last argument is
\* no global variable
MalformedArgs(t) ==
  {<<>>,
   <<CreateConstant(U32(3)), CreateConstant(U32(5)), CreateConstant(U32(7)), PayloadVariable(t),
     CreateConstant(U32(0))>>,
   <<CreateConstant(U32(3)), CreateConstant(U32(5)), CreateConstant(U32(7)), GepAt(t, <<0>>)>>}

\* an entry function with such a call, or with none
MalformedFunction(t, args) ==
  LET ls == Leaves(t, <<0>>)
      stores == [k \in 1..Len(ls) |->
                   CreateInstruction(k + 2, "Store", voidType,
                                     <<GepAt(ls[k].ty, ls[k].path),
                                       TypedConstant(ls[k].ty, LeafBytes(k, ls[k].ty))>>)]
      dispatch == CreateCall(Len(ls) + 3, DispatchMeshName, "dispatchMesh", voidType, args)
      ret == CreateInstruction(Len(ls) + 4, "Ret", voidType, <<>>)
  IN  [name |-> EntryName,
       instructions |-> <<OrigDimX>> \o stores
                        \o (IF args = <<>> THEN <<>> ELSE <<dispatch>>) \o <<ret>>,
       blocks |-> <<0>>]

Versions == {[Major |-> 6, Minor |-> 5], [Major |-> 6, Minor |-> 6]}

DimInputs ==
  {<<U32(2), U32(3), U32(4)>>, <<U32(65536), U32(65536), U32(2)>>}

\* the register space of the capture buffer
SpaceInputs == {U32(105)}

\* the program model before a pass and the locals of the pass
Context(version, resources, entryPoints, fn) ==
  [version |-> version, resources |-> resources, entryPoints |-> entryPoints, fn |-> fn,
   decls |-> {DispatchMeshName}, psvUAVs |-> <<>>, psvNumThreads |-> <<2, 1, 1>>,
   psvPayloadSize |-> U32(0), globalFlags |-> {"WaveOps", "UAVsAtEveryStage"},
   entryName |-> "", payloadFound |-> FALSE, payloadType |-> voidType,
   payloadVariable |-> CreateUndef(voidType), nextId |-> 100, nextBlock |-> 100,
   prelimInst |-> 0, handle |-> CreateUndef(voidType), flatId |-> CreateUndef(voidType),
   flatIndex |-> CreateUndef(voidType), baseOffset |-> CreateUndef(voidType), srcs |-> <<>>,
   regSlot |-> U32(0),
   payloadSize |-> U32(0), status |-> "ok", errors |-> 0, warnings |-> 0]

EditInput(version, resources, entryPoints, fn, space, dim) ==
  [status |-> "input", c |-> Context(version, resources, entryPoints, fn), space |-> space,
   dispatchDim |-> dim]

\* every resource list, with one program
ResourceSlice ==
  LET t == StructT(<<i32>>)
      entryPoints == MdList(<<MdList(<<MdValue, CreateStringMetadata(EntryName), MdNull, MdNull,
                                       MdList(<<CreateConstantMetadata(U32(AmplificationTag)),
                                                AmpData(t)>>)>>)>>)
  IN  {EditInput(version, resources, entryPoints, OrigFunction(t, args, FALSE), space,
                 <<U32(2), U32(3), U32(4)>>) :
         version \in Versions, resources \in ResourceInputs, args \in DispatchArgs,
         space \in SpaceInputs}

\* every program, with no resource list and with the UAV ids 0 and 2
ProgramSlice ==
  UNION {{EditInput(version, resources, entryPoints, fn, space, dim) :
            version \in Versions,
            resources \in {<<>>, <<MdList(<<MdNull,
                                            MdList(<<ExistingUAV(CreateConstantMetadata(U32(0))),
                                                     ExistingUAV(CreateConstantMetadata(U32(2)))>>),
                                            MdNull, MdNull>>)>>},
            entryPoints \in EntryPointInputs(t), fn \in FunctionInputs(t),
            space \in SpaceInputs, dim \in DimInputs} : t \in EditTypes}

\* the entry functions without a well-formed dispatch call
MalformedSlice ==
  LET t == StructT(<<i32>>)
      entryPoints == MdList(<<MdList(<<MdValue, CreateStringMetadata(EntryName), MdNull, MdNull,
                                       MdList(<<CreateConstantMetadata(U32(AmplificationTag)),
                                                AmpData(t)>>)>>)>>)
  IN  {EditInput(version, <<>>, entryPoints, MalformedFunction(t, args), space,
                 <<U32(2), U32(3), U32(4)>>) :
         version \in Versions, args \in MalformedArgs(t), space \in SpaceInputs}

\* versions whose major and minor number lie on different sides of 6
OtherVersions == {[Major |-> 5, Minor |-> 7], [Major |-> 6, Minor |-> 7], [Major |-> 7, Minor |-> 0]}

\* one program, with these versions
VersionSlice ==
  LET t == StructT(<<i32>>)
      entryPoints == MdList(<<MdList(<<MdValue, CreateStringMetadata(EntryName), MdNull, MdNull,
                                       MdList(<<CreateConstantMetadata(U32(AmplificationTag)),
                                                AmpData(t)>>)>>)>>)
  IN  {EditInput(version, <<>>, entryPoints,
                 OrigFunction(t, <<CreateConstant(U32(3)), CreateConstant(U32(5)),
                                   CreateConstant(U32(7))>>, FALSE),
                 space, <<U32(2), U32(3), U32(4)>>) :
         version \in OtherVersions, space \in SpaceInputs}

\* programs whose entry point names a function that is not in the module
MisnamedSlice ==
  LET t == StructT(<<i32>>)
      fn == OrigFunction(t, <<CreateConstant(U32(3)), CreateConstant(U32(5)),
                              CreateConstant(U32(7))>>, FALSE)
  IN  {EditInput(version, <<>>, entryPoints, [fn EXCEPT !.name = "helper"], U32(105),
                 <<U32(2), U32(3), U32(4)>>) :
         version \in Versions, entryPoints \in EntryPointInputs(t) \ {MdNull}}

EditInputs ==
  ResourceSlice \cup ProgramSlice \cup MalformedSlice \cup VersionSlice \cup MisnamedSlice

CopyIdle ==
  /\ cpPhase = "idle"
  /\ cpRound = 0
  /\ cpDir = BufferToPayload
  /\ cpType = voidType
  /\ cpBase = 0
  /\ cpBefore = NoProgram
  /\ cpEd = NoProgram
  /\ cpMem = NoProgram
  /\ cpOrig = NoProgram
  /\ cpThread = NoProgram
  /\ cpPc = 0

EditInit ==
  /\ input \in EditInputs
  /\ inj = NoProgram
  /\ fed = NoProgram
  /\ CopyIdle
  /\ ExecIdle
  /\ SOIdle

\* one run of the injector on the input
AddDXILAmpShaderPayloadStores ==
  /\ input.status = "input"
  /\ inj = NoProgram
  /\ \E c1 \in {DeclareUAV(InjectorDeclare(input.c), input.space)} :
     \E c2 \in {InjectorEntryTags(c1)} :
       IF c2.status # "ok" THEN inj' = c2
       ELSE \E c3 \in {GetFunctionByName(RegisterUAV(c2, input.space))} :
              IF c3.status # "ok" THEN inj' = c3
              ELSE \E c4 \in {FindDispatch(c3, 1)} :
                   \E c5 \in {CreateHandle(c4, input.space)} :
                   \E c6 \in {InjectorSlot(c5, input.dispatchDim)} :
                     inj' = SplitLoop(c6, 0, 0)
  /\ UNCHANGED <<input, fed>>
  /\ UNCHANGED <<copyVars, execVars, soVars>>

\* one run of the feeder on the input
ConvertToFixedDXILAmpFeeder ==
  /\ input.status = "input"
  /\ fed = NoProgram
  /\ \E c1 \in {DeclareUAV(FeederDeclare(input.c), input.space)} :
     \E c2 \in {FeederEntryTags(c1)} :
       IF c2.status # "ok" THEN fed' = c2
       ELSE \E c3 \in {GetFunctionByName(FeederPSV(c2, input.space))} :
              IF c3.status # "ok" THEN fed' = c3
              ELSE \E c4 \in {FeederRebuild(FindDispatch(c3, 1))} :
                     IF c4.status # "ok" THEN fed' = c4
                     ELSE \E c5 \in {FeederHandle(c4, input.space)} :
                          \E c6 \in {FeederSlot(c5, input.dispatchDim)} :
                            fed' = FeederBody(c6)
  /\ UNCHANGED <<input, inj>>
  /\ UNCHANGED <<copyVars, execVars, soVars>>

EditNext == AddDXILAmpShaderPayloadStores \/ ConvertToFixedDXILAmpFeeder

SpecEdit == EditInit /\ [][EditNext]_vars

(***************************************************************************)
(* SpecExec: both passes applied to an input program, the injected         *)
(* program run by the threads of the capture dispatch, then the feeder     *)
(* program run by one thread for each of the same groups.  A thread is     *)
(* [gid, tid, regs, pc, writes, reads, dispatched]: pc is the index of its *)
(* next instruction, writes and reads list its buffer accesses in program  *)
(* order, dispatched holds the dimensions it gave to dispatchMesh.         *)
(***************************************************************************)
\* the largest number of threads of a group
MaxThreads == 2

(***************************************************************************)
(* The injected barrier stands in the block that only thread 0 of a group  *)
(* enters (lines 580-599), so the threads of a group of more than one      *)
(* thread do not all reach it.  A barrier in non-uniform control flow has  *)
(* no defined behaviour; these are the outcomes:                           *)
(*   "sync"    it pairs with the synchronisation the other threads do at   *)
(*             dispatchMesh, and opens when all of them are there;         *)
(*   "none"    it synchronises nothing and opens at once;                  *)
(*   "strict"  it opens only when every thread of the group stands at it.  *)
(***************************************************************************)
Modes == {"sync", "none", "strict"}

IsBarrier(inst) == inst.op = "Call" /\ inst.dxop = "barrier"

\* the index of the first instruction of block b: the k-th block of the
\* list starts after the (k-1)-th terminator of the stream
BlockStart(fn, b) ==
  LET k == CHOOSE k \in 1..Len(fn.blocks) : fn.blocks[k] = b
      ends == {i \in 1..Len(fn.instructions) : IsTerminator(fn.instructions[i])}
  IN  IF k = 1 THEN 1
      ELSE 1 + CHOOSE i \in ends : Cardinality({j \in ends : j <= i}) = k - 1

NextPc(fn, inst, th) ==
  IF inst.op = "Branch" /\ Len(inst.args) = 3
  THEN IF Operand(inst.args[3], th)[1].b = <<1>>
       THEN BlockStart(fn, inst.args[1].v[1])
       ELSE BlockStart(fn, inst.args[2].v[1])
  ELSE IF inst.op = "Branch" THEN BlockStart(fn, inst.args[1].v[1])
  ELSE IF inst.op = "Ret" THEN Len(fn.instructions) + 1
  ELSE th.pc + 1

\* the buffer access of a load or store: instruction, address and length
Access(inst, th) ==
  [id |-> inst.id,
   addr |-> Operand(inst.args[3], th)[1].b,
   len |-> IF IsBufferStore(inst) THEN Len(Operand(inst.args[5], th)[1].b)
           ELSE MaskCount(inst.args[5].v[1]) * (inst.type.members[1].bitWidth \div 8)]

\* the thread after it has executed inst of fn on mem
Stepped(fn, inst, th, mem) ==
  [Executed(inst, th, mem) EXCEPT
     !.pc = NextPc(fn, inst, th),
     !.writes = IF IsBufferStore(inst) THEN Append(@, Access(inst, th)) ELSE @,
     !.reads = IF IsBufferLoad(inst) THEN Append(@, Access(inst, th)) ELSE @,
     !.dispatched = IF IsDispatchMesh(inst)
                    THEN <<Operand(inst.args[2], th)[1].b, Operand(inst.args[3], th)[1].b,
                           Operand(inst.args[4], th)[1].b>>
                    ELSE @]

Finished(fn, th) == th.pc > Len(fn.instructions)

\* the thread stands at dispatchMesh or behind it
AtDispatch(fn, th) ==
  IF Finished(fn, th) THEN TRUE ELSE \E i \in 1..th.pc : IsDispatchMesh(fn.instructions[i])

\* whether the barrier that thread k stands at lets it pass
BarrierOpen(k) ==
  LET others == {o \in DOMAIN xThreads : o[1] = k[1] /\ o # k}
  IN  IF xMode = "sync" THEN \A o \in others : AtDispatch(inj.fn, xThreads[o])
      ELSE IF xMode = "strict" THEN \A o \in others : xThreads[o].pc = xThreads[k].pc
      ELSE TRUE

\* thread k of the capture dispatch executes its next instruction
CaptureStep(k) ==
  /\ xMode # "idle"
  /\ inj.status = "ok"
  /\ fed.status = "ok"
  /\ ~Finished(inj.fn, xThreads[k])
  /\ LET inst == inj.fn.instructions[xThreads[k].pc]
         mem == [payload |-> xPayload[k[1]], buf |-> xBuf]
     IN  /\ IsBarrier(inst) => BarrierOpen(k)
         /\ \E after \in {Effect(inst, xThreads[k], mem)} :
              /\ xPayload' = [xPayload EXCEPT ![k[1]] = after.payload]
              /\ xBuf' = after.buf
         /\ xThreads' = [xThreads EXCEPT ![k] = Stepped(inj.fn, inst, @, mem)]
  /\ UNCHANGED <<xMode, xFeed, xFeedPayload>>
  /\ UNCHANGED <<copyVars, editVars, soVars>>

Capture == \E k \in DOMAIN xThreads : CaptureStep(k)

\* the thread of group g of the feeder dispatch executes its next
\* instruction; the feeder runs when the capture dispatch has finished
FeedStep(g) ==
  /\ xMode # "idle"
  /\ inj.status = "ok"
  /\ fed.status = "ok"
  /\ \A k \in DOMAIN xThreads : Finished(inj.fn, xThreads[k])
  /\ ~Finished(fed.fn, xFeed[g])
  /\ LET inst == fed.fn.instructions[xFeed[g].pc]
         mem == [payload |-> xFeedPayload[g], buf |-> xBuf]
     IN  /\ \E after \in {Effect(inst, xFeed[g], mem)} :
              /\ xFeedPayload' = [xFeedPayload EXCEPT ![g] = after.payload]
              /\ xBuf' = after.buf
         /\ xFeed' = [xFeed EXCEPT ![g] = Stepped(fed.fn, inst, @, mem)]
  /\ UNCHANGED <<xMode, xThreads, xPayload>>
  /\ UNCHANGED <<copyVars, editVars, soVars>>

Replay == \E g \in DOMAIN xFeed : FeedStep(g)

\* a payload in which thread t fills element t
ThreadPayload == StructT(<<ArrayT(i32, MaxThreads)>>)

PerThreadFunction ==
  LET tid == CreateCall(2, "dx.op.flattenedThreadIdInGroup.i32", "flattenedThreadIdInGroup",
                        i32, <<>>)
      ptr == CreateInstruction(3, "GetElementPtr", PointerT(i32),
                               <<PayloadVariable(ThreadPayload), CreateConstant(U32(0)),
                                 CreateConstant(U32(0)), InstRef(tid)>>)
      val == CreateInstruction(4, "Add", i32, <<InstRef(tid), CreateConstant(U32(16))>>)
      store == CreateInstruction(5, "Store", voidType, <<InstRef(ptr), InstRef(val)>>)
      dispatch == CreateCall(6, DispatchMeshName, "dispatchMesh", voidType,
                             <<InstRef(OrigDimX), CreateConstant(U32(5)), CreateConstant(U32(7)),
                               PayloadVariable(ThreadPayload)>>)
  IN  [name |-> EntryName,
       instructions |-> <<OrigDimX, tid, ptr, val, store, dispatch,
                          CreateInstruction(7, "Ret", voidType, <<>>)>>,
       blocks |-> <<0>>]

\* the dispatches of two groups: payload type, dispatch size (one with
\* 2^32 groups, one with more) and the ids of the two groups
LastOfPlane(dim) == {<<0, 0, 0>>, <<dim[1] - 1, dim[2] - 1, 0>>}

RowAndColumn(dim) == {<<dim[1] - 1, 0, 0>>, <<0, dim[2] - 1, dim[3] - 1>>}

FirstOfPlanes(dim) == {<<0, 0, 0>>, <<0, 0, dim[3] - 1>>}

ExecCases ==
  LET a == StructT(<<f32, ArrayT(i32, 2)>>)
      b == StructT(<<i16, i64>>)
  IN  {<<a, <<2, 2, 2>>, LastOfPlane(<<2, 2, 2>>)>>,
       <<a, <<2, 2, 2>>, RowAndColumn(<<2, 2, 2>>)>>,
       <<a, <<2, 2, 2>>, FirstOfPlanes(<<2, 2, 2>>)>>,
       <<b, <<2, 2, 2>>, LastOfPlane(<<2, 2, 2>>)>>,
       <<b, <<3, 1, 2>>, RowAndColumn(<<3, 1, 2>>)>>,
       <<a, <<65536, 65536, 1>>, LastOfPlane(<<65536, 65536, 1>>)>>,
       <<b, <<65536, 65536, 1>>, RowAndColumn(<<65536, 65536, 1>>)>>,
       <<a, <<65536, 65536, 2>>, RowAndColumn(<<65536, 65536, 2>>)>>,
       <<a, <<65536, 65536, 2>>, FirstOfPlanes(<<65536, 65536, 2>>)>>}

ExecInput(t, threads, fn, dim) ==
  EditInput([Major |-> 6, Minor |-> 5], <<>>,
            MdList(<<MdList(<<MdValue, CreateStringMetadata(EntryName), MdNull, MdNull,
                              MdList(<<CreateConstantMetadata(U32(AmplificationTag)),
                                       AmpDataOf(t, threads)>>)>>)>>),
            fn, U32(105), <<U32(dim[1]), U32(dim[2]), U32(dim[3])>>)

NewThread(g, t) ==
  [gid |-> <<U32(g[1]), U32(g[2]), U32(g[3])>>, tid |-> t, regs |-> <<>>, pc |-> 1,
   writes |-> <<>>, reads |-> <<>>, dispatched |-> <<>>]

\* a payload nothing has been stored to
UndefPayload(t) ==
  LET ls == Leaves(t, <<0>>)
  IN  [p \in {ls[k].path : k \in 1..Len(ls)} |->
         LET k == CHOOSE k \in 1..Len(ls) : ls[k].path = p
         IN  Cell(ls[k].ty, [j \in 1..(ls[k].ty.bitWidth \div 8) |-> UndefByte])]

\* the payload type of the feeder: four more members
FeederType(t) == StructT(t.members \o <<i32, i32, i32, i32>>)

\* the threads keys of the capture dispatch, their groups' payloads of
\* type t, and one feeder thread for each group
ExecThreads(keys, t) ==
  LET groups == {k[1] : k \in keys}
  IN  /\ xThreads = [k \in keys |-> NewThread(k[1], k[2])]
      /\ xPayload = [g \in groups |-> UndefPayload(t)]
      /\ xFeed = [g \in groups |-> NewThread(g, 0)]
      /\ xFeedPayload = [g \in groups |-> UndefPayload(FeederType(t))]

ExecInit ==
  /\ CopyIdle
  /\ SOIdle
  /\ inj = NoProgram
  /\ fed = NoProgram
  /\ xBuf = EmptyBuffer
  /\ \/ \E n \in 1..MaxThreads :
          /\ xMode \in Modes
          /\ input = ExecInput(ThreadPayload, n, PerThreadFunction, <<1, 1, 1>>)
          /\ ExecThreads({<<0, 0, 0>>} \X (0..(n - 1)), ThreadPayload)
     \/ \E case \in ExecCases :
          /\ xMode = "sync"
          /\ input = ExecInput(case[1], 1,
                               OrigFunction(case[1], <<InstRef(OrigDimX), CreateConstant(U32(5)),
                                                       CreateConstant(U32(7))>>, FALSE),
                               case[2])
          /\ ExecThreads(case[3] \X {0}, case[1])

ExecNext ==
  AddDXILAmpShaderPayloadStores \/ ConvertToFixedDXILAmpFeeder \/ Capture \/ Replay

SpecExec == ExecInit /\ [][ExecNext]_vars

(***************************************************************************)
(* SpecSO: the resize-and-retry loop of the single-instance geometry and   *)
(* tessellation stream-out path of InitPostVSBuffers.  Sizes are counted   *)
(* in units of 0x10000 bytes; the loop only compares them.  What the draw  *)
(* reports, whether the statistics can be mapped and whether the device    *)
(* can create the buffers are the inputs of each iteration.                *)
(***************************************************************************)
\* the number of runs of the loop body that are counted
MaxRuns == 4

\* 0xFFFF0000 bytes
FourGBLimit == 65535

\* the sizes tried: 64 KiB, 32 MiB, 64 MiB, 2 GiB, the last size below the
\* limit, the limit, 4 GiB and 8 GiB
SOSizes == {1, 512, 1024, 32768, 65534, 65535, 65536, 131072}

\* the output sizes a draw reports: PrimitivesStorageNeeded * 3 * stride
SONeeds == {0} \cup SOSizes

\* the sizes CalcMeshOutputSize(curSize, requiredOutput) may return: at
\* least the required output
CalcMeshOutputSize(curSize, requiredOutput) == {s \in SOSizes : s >= requiredOutput}

\* lines 1077-1172: the buffers are released and created anew with the
\* size; the size is 0 afterwards when it is 0xFFFF0000 or more or when
\* the device fails to create one of them
CreateSOBuffers(size, created) ==
  IF size >= FourGBLimit THEN [ok |-> FALSE, size |-> 0]
  ELSE IF ~created THEN [ok |-> FALSE, size |-> 0]
  ELSE [ok |-> TRUE, size |-> size]

\* the buffer is too small also when it has exactly the output's size
BufferTooSmallOrEqual(size, output) == size <= output

\* line 2166
BufferTooSmall(size, output) == size < output

\* the loop is entered with buffers that CreateSOBuffers has created
SOInit ==
  /\ CopyIdle
  /\ EditIdle
  /\ ExecIdle
  /\ soPc = "loop"
  /\ m_SOBufferSize \in {s \in SOSizes : s < FourGBLimit}
  /\ outputSize = 0
  /\ soRuns = 0
  /\ soStatus = ""
  /\ soFirst = 0
  /\ soSame = TRUE

\* lines 2103-2191: one run of the loop body
SOIteration ==
  /\ soPc = "loop"
  /\ \E need \in SONeeds, mapped \in BOOLEAN, created \in BOOLEAN :
       /\ soRuns' = IF soRuns < MaxRuns THEN soRuns + 1 ELSE soRuns
       /\ soFirst' = IF soRuns = 0 THEN need ELSE soFirst
       /\ soSame' = IF soRuns = 0 THEN TRUE ELSE soSame /\ need = soFirst
       /\ IF ~mapped
          THEN /\ soStatus' = "Couldn't get stream-out statistics"
               /\ soPc' = "returned"
               /\ UNCHANGED <<m_SOBufferSize, outputSize>>
          ELSE /\ outputSize' = need
               /\ IF BufferTooSmall(m_SOBufferSize, need)
                  THEN \E newSize \in CalcMeshOutputSize(m_SOBufferSize, need) :
                       \E r \in {CreateSOBuffers(newSize, created)} :
                         /\ m_SOBufferSize' = r.size
                         /\ soPc' = IF r.ok THEN "loop" ELSE "returned"
                         /\ soStatus' = IF r.ok THEN soStatus ELSE "ran out of memory"
                  ELSE /\ soPc' = "done"
                       /\ UNCHANGED <<m_SOBufferSize, soStatus>>
  /\ UNCHANGED <<copyVars, editVars, execVars>>

SONext == SOIteration

\* the loop is straight-line code of one thread: while it is in the loop,
\* the body runs
SpecSO == SOInit /\ [][SONext]_vars /\ WF_vars(SONext)

----
\* C1: one call of PayloadBufferCopy on a type built from scalars, arrays
\* and structs raises the cursor by the sum of bitWidth/8 over the scalar
\* leaves, the k-th leaf in depth-first order being copied at the cursor
\* the leaves before it left; a type without leaves emits no instruction
\* and leaves the cursor and curInst unchanged.
EmittedOffsets(ed, before) ==
  LET new == SelectSeq(ed.f, LAMBDA inst : inst.id >= before.nextId /\ inst.op = "Add")
  IN  [k \in 1..Len(new) |-> new[k].args[2].v]

EmittedPaths(ed, before) ==
  LET new == SelectSeq(ed.f, LAMBDA inst : inst.id >= before.nextId
                                           /\ inst.op \in {"Load", "Store"})
  IN  [k \in 1..Len(new) |-> new[k].args[1].v]

C1_CursorAdvance ==
  (cpPhase = "emitted" /\ Supported(cpType)) =>
    LET ls == Leaves(cpType, <<0, 0>>)
    IN  /\ cpEd.uavByteOffset = Add32(cpBefore.uavByteOffset, U32(PackedBytes(ls, Len(ls))))
        /\ EmittedOffsets(cpEd, cpBefore) =
             [k \in 1..Len(ls) |-> Add32(cpBefore.uavByteOffset, U32(PackedBytes(ls, k - 1)))]
        /\ EmittedPaths(cpEd, cpBefore) = [k \in 1..Len(ls) |-> ls[k].path]
        /\ Len(ls) = 0 => /\ cpEd.f = cpBefore.f
                          /\ cpEd.curInst = cpBefore.curInst
                          /\ cpEd.uavByteOffset = cpBefore.uavByteOffset

C1_Witness ==
  /\ cpPhase = "emitted"
  /\ cpType = StructT(<<i8, i64, ArrayT(StructT(<<i16, f64>>), MaxElems)>>)
  /\ cpEd.uavByteOffset = U32(16 + 9 + 10 * MaxElems)

C1_WitnessEmpty ==
  /\ cpPhase = "emitted"
  /\ cpType = ArrayT(i16, 0)
  /\ cpEd = cpBefore

\* C3: a payload written to the buffer with PayloadToBuffer and read back
\* with BufferToPayload at the same base offset and cursor (or a buffer
\* read into the payload and written back) is reproduced bit for bit, and
\* the value stored into each payload leaf has the leaf's own scalar type.
C3_RoundTrip ==
  (cpPhase = "ran" /\ cpRound = 2 /\ Supported(cpType)) =>
    IF cpDir = BufferToPayload
    THEN cpMem.payload = cpOrig.payload
    ELSE cpMem.buf = cpOrig.buf

(***************************************************************************)
(* What the claims about the passes refer to.                              *)
(***************************************************************************)
\* the passes that have run to their end or returned early
Done == {p \in {inj, fed} : p.status \in {"ok", "failed"}}

\* the UAV records of a program model
UAVRecords(c) ==
  IF c.resources = <<>> THEN <<>>
  ELSE IF c.resources[1].children = <<>> THEN <<>>
  ELSE IF c.resources[1].children[2].k = "null" THEN <<>>
  ELSE c.resources[1].children[2].children

ConstantIds(uavs) ==
  {ToNat(uavs[i].children[ResFieldID].v) :
     i \in {j \in 1..Len(uavs) : uavs[j].children[ResFieldID].k = "const"}}

SetMax(S) == CHOOSE m \in S : \A x \in S : x <= m

\* C8: after the injector has run, the three dimension arguments of the
\* dispatch call are the constant i32 zero, and the three header stores
\* emitted before the call carry the values the arguments had before.
HasDispatch(f) == \E d \in 1..Len(f) : IsDispatchMesh(f[d])

DispatchAt(f) == CHOOSE d \in 1..Len(f) : IsDispatchMesh(f[d])

C8_DispatchZeroed ==
  (inj.status = "ok" /\ HasDispatch(inj.fn.instructions)) =>
    LET f == inj.fn.instructions
        d == DispatchAt(f)
        before == input.c.fn.instructions[DispatchAt(input.c.fn.instructions)]
        stores == SelectSeq(SubSeq(f, 1, d - 1), IsBufferStore)
    IN  /\ \A j \in 2..4 : f[d].args[j] = CreateConstant(U32(0))
        /\ f[d].args[5] = before.args[5]
        /\ Len(stores) >= 3
        /\ \A j \in 1..3 : stores[j].args[5] = before.args[j + 1]
        /\ stores[1].args[3] = inj.baseOffset
        /\ \A j \in 2..3 :
             \E a \in 1..(d - 1) :
               /\ stores[j].args[3] = InstRef(f[a])
               /\ f[a].op = "Add"
               /\ f[a].args = <<inj.baseOffset, CreateConstant(U32(4 * (j - 1)))>>

C8_Witness ==
  /\ inj.status = "ok"
  /\ HasDispatch(inj.fn.instructions)
  /\ input.c.fn.instructions[DispatchAt(input.c.fn.instructions)].args[2] = InstRef(OrigDimX)
  /\ inj.fn.instructions[DispatchAt(inj.fn.instructions)].args[2] = CreateConstant(U32(0))

\* C9: one run of either pass appends exactly one record to the UAV list;
\* the record's slot id is the id of no record that was in the list before,
\* and the records that were in the list keep their content and positions.
C9_OneNewRecord ==
  \A p \in Done :
    LET old == UAVRecords(input.c)
        new == UAVRecords(p)
    IN  /\ Len(new) = Len(old) + 1
        /\ SubSeq(new, 1, Len(old)) = old
        /\ new[Len(new)].children[ResFieldID].k = "const"
        /\ \A i \in 1..Len(old) :
             old[i].children[ResFieldID] # new[Len(new)].children[ResFieldID]

C9_Witness ==
  /\ fed.status = "ok"
  /\ inj.status = "ok"
  /\ Len(UAVRecords(input.c)) = MaxUAVs
  /\ Len(UAVRecords(fed)) = MaxUAVs + 1
  /\ Len(UAVRecords(inj)) = MaxUAVs + 1

C10_WitnessNonConstant ==
  /\ inj.status = "ok"
  /\ Len(UAVRecords(input.c)) = 2
  /\ UAVRecords(input.c)[1].children[ResFieldID] = CreateConstantMetadata(U32(1))
  /\ UAVRecords(input.c)[2].children[ResFieldID] = MdValue
  /\ inj.regSlot = U32(2)
  /\ inj.warnings = 1

(***************************************************************************)
(* What the claims about the captured dispatch refer to.  The payload type *)
(* and the payload size are read from the input program, the slot index    *)
(* is computed exactly, on byte strings of any length.                     *)
(***************************************************************************)
InputPayloadType == input.c.fn.instructions[DispatchAt(input.c.fn.instructions)].args[5].ty.inner[1]

InputPayloadSize == input.c.entryPoints.children[1].children[5].children[2].children[2].v

\* x + y*dimX + z*dimX*dimY for the group id g, not truncated
ExactIndex(g) ==
  BigAdd(g[1], BigAdd(BigMul(g[2], input.dispatchDim[1]),
                      BigMul(g[3], BigMul(input.dispatchDim[1], input.dispatchDim[2]))))

\* dimX*dimY*dimZ, not truncated
ExactGroups ==
  BigMul(input.dispatchDim[1], BigMul(input.dispatchDim[2], input.dispatchDim[3]))

\* the instruction of the stream f that has the id
InstOf(f, id) == f[CHOOSE i \in 1..Len(f) : f[i].id = id]

\* the payload stores to the buffer that a thread of the capture dispatch
\* has executed: the index chain of the leaf loaded and the address written
CaptureWrites(th) ==
  LET f == inj.fn.instructions
      value(j) == InstOf(f, th.writes[j].id).args[5]
      leaf(j) == IF value(j).k = "inst" THEN InstOf(f, value(j).v[1]).op = "Load" ELSE FALSE
  IN  {<<InstOf(f, value(j).v[1]).args[1].v, th.writes[j].addr>> :
         j \in {i \in 1..Len(th.writes) : leaf(i)}}

\* the buffer loads a thread of the feeder dispatch has executed whose
\* first component is stored to a leaf of the original payload: the index
\* chain of the leaf stored to and the address read
FeederReads(th) ==
  LET f == fed.fn.instructions
      paths == {l.path : l \in {Leaves(InputPayloadType, <<0>>)[j] :
                                  j \in 1..Len(Leaves(InputPayloadType, <<0>>))}}
      fromLoad(s, id) ==
        IF f[s].op = "Store" /\ f[s].args[2].k = "inst"
        THEN LET e == InstOf(f, f[s].args[2].v[1])
             IN  e.op = "ExtractVal" /\ e.args[1].v = <<id>> /\ e.args[2].v = <<0>>
        ELSE FALSE
  IN  {pa \in UNION {{<<f[s].args[1].v, th.reads[j].addr>> :
                        s \in {i \in 1..Len(f) : fromLoad(i, th.reads[j].id)}} :
                     j \in 1..Len(th.reads)} : pa[1] \in paths}

\* where the claim puts the leaves of the group with the id g: the index
\* chain of each leaf and its address
ExpectedLeaves(g) ==
  LET ls == Leaves(InputPayloadType, <<0>>)
      base == Trunc32(BigMul(ExactIndex(g), BigAdd(InputPayloadSize, U32(16))))
  IN  {<<ls[j].path, Trunc32(BigAdd(base, U32(16 + PackedBytes(ls, j - 1))))>> :
         j \in 1..Len(ls)}

\* the capture thread of a group and the feeder thread of the same group
\* have both run to their end
BothRan(k) ==
  /\ xMode # "idle"
  /\ inj.status = "ok"
  /\ fed.status = "ok"
  /\ k[2] = 0
  /\ Finished(inj.fn, xThreads[k])
  /\ Finished(fed.fn, xFeed[k[1]])

\* C2: for the same payload type, dispatchDim, payload size and workgroup
\* id, the injected program writes and the feeder program reads every
\* scalar leaf of the payload at the same buffer byte offset, which is
\* flatIndex*(payloadSize+16) + 16 + the packed size of the leaves before
\* it, in the 32-bit arithmetic of the programs; leaves of {float32 a,
\* int32 b[2]} in slot 0 sit at 16, 20 and 24.
C2_SameOffsets ==
  \A k \in DOMAIN xThreads :
    BothRan(k) =>
      /\ CaptureWrites(xThreads[k]) = ExpectedLeaves(xThreads[k].gid)
      /\ FeederReads(xFeed[k[1]]) = ExpectedLeaves(xThreads[k].gid)

C2_Witness ==
  /\ InputPayloadType = StructT(<<f32, ArrayT(i32, 2)>>)
  /\ \A k \in {<<<<0, 0, 0>>, 0>>, <<<<1, 1, 0>>, 0>>} : k \in DOMAIN xThreads /\ BothRan(k)
  /\ FeederReads(xFeed[<<0, 0, 0>>]) =
       {<<<<0, 0>>, U32(16)>>, <<<<0, 1, 0>>, U32(20)>>, <<<<0, 1, 1>>, U32(24)>>}
  /\ CaptureWrites(xThreads[<<<<1, 1, 0>>, 0>>]) =
       {<<<<0, 0>>, U32(100)>>, <<<<0, 1, 0>>, U32(104)>>, <<<<0, 1, 1>>, U32(108)>>}

(***************************************************************************)
(* The slot index.  A thread holds it once it has executed the Add that    *)
(* the pass keeps in flatIndex.                                            *)
(***************************************************************************)
\* the largest number of groups of a dispatch whose groups are all listed
MaxGroups == 8

TwoTo32 == <<0, 0, 0, 0, 1>>

HasIndex(p, th) == p.flatIndex.v[1] \in DOMAIN th.regs

SlotIndex(p, th) == th.regs[p.flatIndex.v[1]][1].b

\* the thread th after the first n instructions of the stream f, which
\* hold no branch and access no memory
RECURSIVE RunPrefix(_, _, _)
RunPrefix(f, th, n) ==
  IF n = 0 THEN th
  ELSE CHOOSE r \in {Executed(f[n], b, [payload |-> <<>>, buf |-> <<>>]) :
                       b \in {RunPrefix(f, th, n - 1)}} : TRUE

\* the slot index the program of pass p computes in the group g
IndexOf(p, g) ==
  LET f == p.fn.instructions
      n == CHOOSE i \in 1..Len(f) : f[i].id = p.flatIndex.v[1]
  IN  SlotIndex(p, RunPrefix(f, NewThread(g, 0), n))

\* every group of the dispatch, when they are at most MaxGroups
AllGroups ==
  IF BigLeq(ExactGroups, U32(MaxGroups))
  THEN (0..(ToNat(input.dispatchDim[1]) - 1)) \X (0..(ToNat(input.dispatchDim[2]) - 1))
         \X (0..(ToNat(input.dispatchDim[3]) - 1))
  ELSE {}

\* the passes have run and no thread has made a step
Fresh ==
  /\ xMode # "idle"
  /\ inj.status = "ok"
  /\ fed.status = "ok"
  /\ \A k \in DOMAIN xThreads : xThreads[k].pc = 1
  /\ \A g \in DOMAIN xFeed : xFeed[g].pc = 1

\* the thread has just executed the Add that yields the index
JustIndexed(p, th) ==
  IF th.pc > 1 THEN p.fn.instructions[th.pc - 1].id = p.flatIndex.v[1] ELSE FALSE

\* the index a thread has just computed is the claim's expression in
\* 32-bit arithmetic and lies below the number of groups
IndexInRange(p, th) ==
  JustIndexed(p, th) =>
    /\ SlotIndex(p, th) =
         Add32(th.gid[1], Add32(Mul32(th.gid[2], input.dispatchDim[1]),
                                Mul32(th.gid[3], Mul32(input.dispatchDim[1],
                                                       input.dispatchDim[2]))))
    /\ BigLess(SlotIndex(p, th), ExactGroups)

\* threads of different groups hold different indices
IndexInjective(p, threads) ==
  \A a, b \in DOMAIN threads :
    (threads[a].gid # threads[b].gid /\ HasIndex(p, threads[a]) /\ HasIndex(p, threads[b]))
      => SlotIndex(p, threads[a]) # SlotIndex(p, threads[b])

\* the indices of all groups are the numbers 0..dimX*dimY*dimZ-1
IndexOnto(p) ==
  (Fresh /\ AllGroups # {}) =>
    {IndexOf(p, g) : g \in AllGroups} = {U32(n) : n \in 0..(Cardinality(AllGroups) - 1)}

IndexBijective ==
  /\ \A k \in DOMAIN xThreads : IndexInRange(inj, xThreads[k])
  /\ \A g \in DOMAIN xFeed : IndexInRange(fed, xFeed[g])
  /\ IndexInjective(inj, xThreads)
  /\ IndexInjective(fed, xFeed)
  /\ IndexOnto(inj)
  /\ IndexOnto(fed)

\* C4 as stated: the slot index that the instructions of both passes
\* compute, groupX + (groupY*dimX + groupZ*(dimX*dimY)) in 32-bit
\* arithmetic, maps the workgroup ids of the dispatch one to one onto
\* 0..dimX*dimY*dimZ-1, whatever the dispatch size.
C4_Bijection ==
  (inj.status = "ok" /\ fed.status = "ok") => IndexBijective

\* C4 amended: the same, for the dispatches with dimX*dimY*dimZ <= 2^32.
C4_BijectionNoWrap ==
  (inj.status = "ok" /\ fed.status = "ok") =>
    (IndexBijective \/ ~BigLeq(ExactGroups, TwoTo32))

C4_Witness ==
  /\ input.dispatchDim = <<U32(2), U32(2), U32(2)>>
  /\ inj.status = "ok"
  /\ fed.status = "ok"
  /\ \A k \in {<<<<1, 0, 0>>, 0>>, <<<<0, 1, 1>>, 0>>} :
       /\ k \in DOMAIN xThreads
       /\ HasIndex(inj, xThreads[k])
       /\ HasIndex(fed, xFeed[k[1]])
  /\ SlotIndex(inj, xThreads[<<<<1, 0, 0>>, 0>>]) = U32(1)
  /\ SlotIndex(inj, xThreads[<<<<0, 1, 1>>, 0>>]) = U32(6)
  /\ SlotIndex(fed, xFeed[<<1, 0, 0>>]) = U32(1)
  /\ SlotIndex(fed, xFeed[<<0, 1, 1>>]) = U32(6)

(***************************************************************************)
(* The threads of one group.                                               *)
(***************************************************************************)
BufferStores(f) == {f[i].id : i \in {j \in 1..Len(f) : IsBufferStore(f[j])}}

\* how often the thread has executed the buffer store with the id
Executions(th, id) == Cardinality({j \in 1..Len(th.writes) : th.writes[j].id = id})

\* thread k of the capture dispatch has a next instruction and may execute it
CanStep(k) ==
  IF Finished(inj.fn, xThreads[k]) THEN FALSE
  ELSE IF IsBarrier(inj.fn.instructions[xThreads[k].pc]) THEN BarrierOpen(k)
  ELSE TRUE

\* no thread of the group g will ever make another step
GroupAtRest(g) == \A k \in DOMAIN xThreads : k[1] = g => ~CanStep(k)

Capturing == xMode # "idle" /\ inj.status = "ok" /\ fed.status = "ok"

\* C5: in the injected program only the thread with flattened index 0
\* executes the header and payload stores to the capture buffer, no store
\* is executed twice, and when the threads of the group have come to rest
\* thread 0 has executed each of them exactly once, whatever the number
\* of threads and their interleaving.
C5_ExactlyOnce ==
  Capturing =>
    \A k \in DOMAIN xThreads :
      /\ k[2] # 0 => xThreads[k].writes = <<>>
      /\ \A id \in BufferStores(inj.fn.instructions) : Executions(xThreads[k], id) <= 1
      /\ (k[2] = 0 /\ GroupAtRest(k[1])) =>
           \A id \in BufferStores(inj.fn.instructions) : Executions(xThreads[k], id) = 1

\* the thread has executed a load of a payload leaf
HasLoaded(th) ==
  \E i \in 1..Len(inj.fn.instructions) :
    inj.fn.instructions[i].op = "Load" /\ inj.fn.instructions[i].id \in DOMAIN th.regs

\* C6: when the capture thread loads a leaf of the payload, every other
\* thread of its group has completed the payload writes it performs
\* before the dispatch point, so that what the capture thread has stored
\* to the buffer when it ends is what the threads wrote: element t of the
\* payload array, written by thread t, holds t + 16.
C6_WritesVisible ==
  Capturing =>
    \A k \in DOMAIN xThreads :
      k[2] = 0 =>
        /\ HasLoaded(xThreads[k]) =>
             \A o \in DOMAIN xThreads :
               (o[1] = k[1] /\ o # k) => AtDispatch(inj.fn, xThreads[o])
        /\ (Finished(inj.fn, xThreads[k]) /\ InputPayloadType = ThreadPayload) =>
             \A o \in DOMAIN xThreads :
               o[1] = k[1] => ReadBytes(xBuf, U32(16 + 4 * o[2]), 4) = U32(o[2] + 16)

(***************************************************************************)
(* The bytes the groups write.                                             *)
(***************************************************************************)
TwoTo31 == <<0, 0, 0, 128>>

\* payloadSize + 16, not truncated
ExactSlot == BigAdd(InputPayloadSize, U32(16))

\* the capture dispatch has come to rest and the feeder has not started
CaptureDone ==
  /\ Capturing
  /\ \A k \in DOMAIN xThreads : ~CanStep(k)
  /\ \A g \in DOMAIN xFeed : xFeed[g].pc = 1

\* the bytes of the access w lie in the slot of the group with the id g
InOwnSlot(w, g) ==
  /\ BigLeq(BigMul(ExactIndex(g), ExactSlot), w.addr)
  /\ BigLeq(BigAdd(w.addr, U32(w.len)), BigMul(BigAdd(ExactIndex(g), <<1>>), ExactSlot))

\* the accesses v and w have no byte in common
Apart(v, w) ==
  \A i \in 0..(v.len - 1), j \in 0..(w.len - 1) :
    Add32(v.addr, U32(i)) # Add32(w.addr, U32(j))

SlotsDisjoint ==
  /\ \A k \in DOMAIN xThreads :
       \A j \in 1..Len(xThreads[k].writes) : InOwnSlot(xThreads[k].writes[j], xThreads[k].gid)
  /\ \A k, o \in DOMAIN xThreads :
       k[1] # o[1] =>
         \A i \in 1..Len(xThreads[k].writes), j \in 1..Len(xThreads[o].writes) :
           Apart(xThreads[k].writes[i], xThreads[o].writes[j])

EntryTags(c) ==
  LET taglist == c.entryPoints.children[1].children[5]
  IN  IF taglist.k = "null" THEN <<>> ELSE taglist.children

\* the 1-based positions of the values whose tag is tag
ValuesOf(children, tag) ==
  {2 * n : n \in {m \in 1..(Len(children) \div 2) : getU32(children[2 * m - 1]) = U32(tag)}}

HasTag(children, tag) == ValuesOf(children, tag) # {}

\* the value of the last pair whose tag is tag
TagValue(children, tag) ==
  children[CHOOSE i \in ValuesOf(children, tag) : \A j \in ValuesOf(children, tag) : j <= i]

FeederRan == input.status = "input" /\ fed.status = "ok"

OriginalAmpData == TagValue(EntryTags(input.c), AmplificationTag)

FeederAmpData == TagValue(EntryTags(fed), AmplificationTag)

\* C11: after the feeder has run, the amplification entry tag declares a
\* thread group of 1x1x1 and a payload size of the original size plus 16,
\* and the values given to SetNumThreads and SetASPayloadSize are the same
\* 1x1x1 and original size plus 16.
C11_OneThreadAndHeader ==
  FeederRan =>
    /\ HasTag(EntryTags(fed), AmplificationTag)
    /\ Len(FeederAmpData.children[1].children) = 3
    /\ \A i \in 1..3 : ToNat(getU32(FeederAmpData.children[1].children[i])) = 1
    /\ ToNat(getU32(FeederAmpData.children[2])) =
         ToNat(getU32(OriginalAmpData.children[2])) + 16
    /\ fed.psvNumThreads = <<1, 1, 1>>
    /\ ToNat(fed.psvPayloadSize) = ToNat(getU32(OriginalAmpData.children[2])) + 16

C11_Witness ==
  /\ FeederRan
  /\ ToNat(getU32(OriginalAmpData.children[1].children[1])) = 2
  /\ ToNat(getU32(OriginalAmpData.children[2])) = 12
  /\ ToNat(getU32(FeederAmpData.children[2])) = 28
  /\ fed.psvNumThreads = <<1, 1, 1>>

(***************************************************************************)
(* The feeder's dispatch.                                                  *)
(***************************************************************************)
\* the 1-based positions of the dispatchMesh calls of an instruction stream
DispatchCalls(f) == {d \in 1..Len(f) : IsDispatchMesh(f[d])}

\* the 1-based positions of the instruction a value refers to
Referred(f, value) ==
  IF value.k = "inst" THEN {i \in 1..Len(f) : f[i].id = value.v[1]} ELSE {}

\* value is component number component, extracted from a four-component
\* load of the capture buffer at the feeder's base offset, the slot index
\* times the slot size
IsHeaderComponent(f, value, component) ==
  \E e \in Referred(f, value) :
    /\ f[e].op = "ExtractVal"
    /\ f[e].args[2] = CreateLiteral(component)
    /\ \E l \in Referred(f, f[e].args[1]) :
         /\ l < e
         /\ IsBufferLoad(f[l])
         /\ f[l].args[3] = fed.baseOffset
         /\ f[l].args[5] = CreateConstant8(15)
         /\ \E b \in Referred(f, fed.baseOffset) :
              /\ b < l
              /\ f[b].op = "Mul"
              /\ f[b].args[1] = fed.flatIndex
              /\ f[b].args[2].k = "const"
              /\ ToNat(f[b].args[2].v) = ToNat(getU32(OriginalAmpData.children[2])) + 16

\* C12: the entry function the feeder leaves holds exactly one dispatch
\* call, and its three dimension arguments are the components 0, 1 and 2
\* extracted from the header load at the slot's base offset: no literal
\* constant, and so not 1x1x1.
C12_DispatchFromHeader ==
  FeederRan =>
    LET f == fed.fn.instructions
    IN  /\ Cardinality(DispatchCalls(f)) = 1
        /\ \A d \in DispatchCalls(f) :
             /\ Len(f[d].args) = 5
             /\ \A j \in 0..2 :
                  /\ f[d].args[j + 2].k \notin {"const", "literal"}
                  /\ IsHeaderComponent(SubSeq(f, 1, d - 1), f[d].args[j + 2], j)

C12_Witness ==
  /\ FeederRan
  /\ \E d \in DispatchCalls(input.c.fn.instructions) :
       input.c.fn.instructions[d].args[2] = CreateConstant(U32(3))
  /\ \E d \in DispatchCalls(fed.fn.instructions) :
       /\ fed.fn.instructions[d].args[2].k = "inst"
       /\ fed.fn.instructions[d].args[5] = fed.payloadVariable

(***************************************************************************)
(* The shader flags of the entry point tags.                               *)
(***************************************************************************)
InjectorRan == input.status = "input" /\ inj.status = "ok"

\* bit number n of a little-endian byte string
Bit(v, n) == (Digit(v, n \div 8 + 1) \div (2 ^ (n % 8))) % 2

\* the 64-bit shader flags value of a tag list: 0 without a flags tag
FlagsValue(children) ==
  IF HasTag(children, ShaderFlagsTag) THEN TagValue(children, ShaderFlagsTag).v
  ELSE <<0, 0, 0, 0, 0, 0, 0, 0>>

\* C13: the injector only adds flags: every bit set in the 64-bit shader
\* flags value before is still set after, and the bits 0x10 and 0x10000
\* are set after.
C13_OnlyAddsFlags ==
  InjectorRan =>
    LET before == FlagsValue(EntryTags(input.c))
        after == FlagsValue(EntryTags(inj))
    IN  /\ HasTag(EntryTags(inj), ShaderFlagsTag)
        /\ \A n \in 0..63 : Bit(before, n) = 1 => Bit(after, n) = 1
        /\ Bit(after, 4) = 1
        /\ Bit(after, 16) = 1

\* the same for the low 32 bits, which is what the code keeps
InjectorKeepsLowFlags ==
  InjectorRan =>
    LET before == FlagsValue(EntryTags(input.c))
        after == FlagsValue(EntryTags(inj))
    IN  /\ HasTag(EntryTags(inj), ShaderFlagsTag)
        /\ Len(after) = 8
        /\ \A n \in 0..31 : Bit(before, n) = 1 => Bit(after, n) = 1
        /\ \A n \in 32..63 : Bit(after, n) = 0
        /\ Bit(after, 4) = 1
        /\ Bit(after, 16) = 1

(***************************************************************************)
(* The tag list as the passes leave it.                                    *)
(***************************************************************************)
Passes == {"injector", "feeder"}

Left(pass) == IF pass = "injector" THEN inj ELSE fed

\* the node before is still there: the feeder changes the children of the
\* amplification data, which stays the same node of the list
SameNode(pass, tag, before, after) ==
  IF pass = "feeder" /\ getU32(tag) = U32(AmplificationTag)
  THEN after.k = before.k /\ Len(after.children) = Len(before.children)
  ELSE after = before

\* children is a list of (tag, value) pairs
IsPairs(children) ==
  /\ Len(children) % 2 = 0
  /\ \A n \in 1..(Len(children) \div 2) : children[2 * n - 1].k = "const"

\* only the value of the shader flags pair at the 1-based positions
\* at - 1 and at is another node
ValueReplaced(pass, old, new, at) ==
  /\ Len(new) = Len(old)
  /\ new[at].k = "const"
  /\ \A i \in 1..Len(old) :
       i # at => SameNode(pass, old[IF i % 2 = 1 THEN i ELSE i - 1], old[i], new[i])

\* a shader flags pair is at the head and the former nodes follow it
PairInserted(pass, old, new) ==
  /\ Len(new) = Len(old) + 2
  /\ new[1] = CreateConstantMetadata(U32(ShaderFlagsTag))
  /\ new[2].k = "const"
  /\ \A i \in 1..Len(old) :
       SameNode(pass, old[IF i % 2 = 1 THEN i ELSE i - 1], old[i], new[i + 2])

\* C14: where the tag list holds a shader flags tag, a pass replaces only
\* the value node behind that tag, at the same index, and the list keeps
\* its length and every other node; where it holds none, the pass inserts
\* the tag and the value at the indices 0 and 1 and the former nodes move
\* up by two in their order.  The list stays a list of (tag, value) pairs.
C14_TagListPatched ==
  \A pass \in Passes :
    (input.status = "input" /\ Left(pass).status = "ok") =>
      LET old == EntryTags(input.c)
          new == EntryTags(Left(pass))
      IN  /\ IsPairs(new)
          /\ IF HasTag(old, ShaderFlagsTag)
             THEN \A at \in ValuesOf(old, ShaderFlagsTag) : ValueReplaced(pass, old, new, at)
             ELSE PairInserted(pass, old, new)

\* both passes have replaced the value of a flags pair that came second
C14_Witness ==
  /\ InjectorRan
  /\ FeederRan
  /\ ValuesOf(EntryTags(input.c), ShaderFlagsTag) = {4}
  /\ ValuesOf(EntryTags(inj), ShaderFlagsTag) = {4}
  /\ ValuesOf(EntryTags(fed), ShaderFlagsTag) = {4}
  /\ EntryTags(inj)[4] # EntryTags(input.c)[4]
  /\ EntryTags(fed)[4] # EntryTags(inj)[4]

\* both passes have inserted a flags pair before the amplification pair
C14_WitnessInserted ==
  /\ InjectorRan
  /\ FeederRan
  /\ ~HasTag(EntryTags(input.c), ShaderFlagsTag)
  /\ ValuesOf(EntryTags(inj), ShaderFlagsTag) = {2}
  /\ ValuesOf(EntryTags(inj), AmplificationTag) = {4}
  /\ ValuesOf(EntryTags(fed), AmplificationTag) = {4}

\* C15: after the feeder has run, the wave ops flag 0x80000 is cleared in
\* the metadata shader flags value and in the global shader flags, 0x10
\* and 0x10000 are set in the metadata value, and every other bit of the
\* original 64-bit value is unchanged.
C15_FeederFlags ==
  FeederRan =>
    LET before == FlagsValue(EntryTags(input.c))
        after == FlagsValue(EntryTags(fed))
    IN  /\ HasTag(EntryTags(fed), ShaderFlagsTag)
        /\ Bit(after, 19) = 0
        /\ "WaveOps" \notin fed.globalFlags
        /\ Bit(after, 4) = 1
        /\ Bit(after, 16) = 1
        /\ \A n \in (0..63) \ {4, 16, 19} : Bit(after, n) = Bit(before, n)

\* the same for the low 32 bits, which is what the code keeps
FeederKeepsLowFlags ==
  FeederRan =>
    LET before == FlagsValue(EntryTags(input.c))
        after == FlagsValue(EntryTags(fed))
    IN  /\ HasTag(EntryTags(fed), ShaderFlagsTag)
        /\ Len(after) = 8
        /\ Bit(after, 19) = 0
        /\ "WaveOps" \notin fed.globalFlags
        /\ fed.globalFlags = input.c.globalFlags \ {"WaveOps"}
        /\ Bit(after, 4) = 1
        /\ Bit(after, 16) = 1
        /\ \A n \in (0..31) \ {4, 16, 19} : Bit(after, n) = Bit(before, n)
        /\ \A n \in 32..63 : Bit(after, n) = 0

(***************************************************************************)
(* A payload member that is no scalar, array or struct.                    *)
(***************************************************************************)
\* the payload type of the input program's dispatch call
OriginalPayloadType ==
  LET f == input.c.fn.instructions
      found == {d \in DispatchCalls(f) : Len(f[d].args) = 5}
  IN  IF found = {} THEN StructT(<<>>)
      ELSE LET var == f[CHOOSE d \in found : TRUE].args[5]
           IN  IF var.k = "global" THEN var.ty.inner[1] ELSE StructT(<<>>)

\* the 0-based indices of the members that are not supported
UnsupportedMembers(t) == {m \in 0..(Len(t.members) - 1) : ~Supported(t.members[m + 1])}

\* the 0-based indices of the payload members for which a pass has emitted
\* a copy: the injector loads the leaf from the payload, the feeder stores
\* a value extracted from a buffer load to it
CopiedMembers(pass) ==
  LET f == Left(pass).fn.instructions
  IN  IF pass = "injector"
      THEN {f[i].args[1].v[2] : i \in {j \in 1..Len(f) : f[j].op = "Load"}}
      ELSE {f[i].args[1].v[2] :
              i \in {j \in 1..Len(f) :
                       /\ f[j].op = "Store"
                       /\ f[j].args[1].v[2] < Len(OriginalPayloadType.members)}}

\* C16: a payload member of an unsupported type (pointer, function,
\* vector, label, metadata) makes the pass fail, and is never skipped: no
\* copy is emitted for a member behind it.
C16_UnsupportedIsFatal ==
  \A pass \in Passes :
    (/\ input.status = "input"
     /\ Left(pass).status # "none"
     /\ UnsupportedMembers(OriginalPayloadType) # {}) =>
      /\ Left(pass).status # "ok"
      /\ \A m \in CopiedMembers(pass), u \in UnsupportedMembers(OriginalPayloadType) : m < u

\* what the code does: the member is reported and skipped, the copies of
\* the members behind it are emitted
UnsupportedIsSkipped ==
  \A pass \in Passes :
    (/\ input.status = "input"
     /\ Left(pass).status = "ok"
     /\ UnsupportedMembers(OriginalPayloadType) # {}) =>
      /\ Left(pass).errors = Cardinality(UnsupportedMembers(OriginalPayloadType))
      /\ CopiedMembers(pass) =
           (0..(Len(OriginalPayloadType.members) - 1)) \ UnsupportedMembers(OriginalPayloadType)

(***************************************************************************)
(* An entry function without a well-formed dispatch call.                  *)
(***************************************************************************)
\* the entry function holds no dispatch call, or a dispatch call that has
\* not 5 arguments or whose last argument is no global variable
Malformed(f) ==
  \/ DispatchCalls(f) = {}
  \/ \E d \in DispatchCalls(f) :
       IF Len(f[d].args) # 5 THEN TRUE ELSE f[d].args[5].k # "global"

\* the instructions of f that f0 does not hold
Emitted(f0, f) == {i \in 1..Len(f) : \A j \in 1..Len(f0) : f0[j].id # f[i].id}

\* the injector has reached the entry function of the input
InjectorAtFunction ==
  /\ input.status = "input"
  /\ inj.status # "none"
  /\ input.c.entryPoints.k # "null"
  /\ HasTag(EntryTags(input.c), AmplificationTag)

\* C17: the injector fails, and neither splits a block, emits a capture
\* store nor patches a dispatch argument, when the entry function holds no
\* dispatch call, when the dispatch call does not have 5 arguments, or
\* when its last argument is not a global variable.
C17_MalformedIsFatal ==
  (InjectorAtFunction /\ Malformed(input.c.fn.instructions)) =>
    LET f0 == input.c.fn.instructions
        f == inj.fn.instructions
    IN  /\ inj.status = "failed"
        /\ inj.fn.blocks = input.c.fn.blocks
        /\ \A i \in Emitted(f0, f) : ~IsBufferStore(f[i]) /\ ~IsTerminator(f[i])
        /\ \A d \in DispatchCalls(f0) : \E e \in DispatchCalls(f) : f[e] = f0[d]

\* what the code does without a dispatch call: the pass ends normally,
\* with its handle and slot index emitted and nothing split
NoDispatchEndsNormally ==
  (InjectorAtFunction /\ DispatchCalls(input.c.fn.instructions) = {}) =>
    LET f0 == input.c.fn.instructions
        f == inj.fn.instructions
    IN  /\ inj.status = "ok"
        /\ inj.errors = 0
        /\ Emitted(f0, f) # {}
        /\ inj.fn.blocks = input.c.fn.blocks
        /\ \A i \in Emitted(f0, f) : ~IsBufferStore(f[i]) /\ ~IsTerminator(f[i])

\* what the code does with a dispatch call it does not accept: it reports
\* it, splits the block and emits the stores of the dimensions all the
\* same, and ends in the read of the members of a NULL payload type
MalformedIsSplit ==
  (/\ InjectorAtFunction
   /\ Malformed(input.c.fn.instructions)
   /\ DispatchCalls(input.c.fn.instructions) # {}) =>
    LET f0 == input.c.fn.instructions
        f == inj.fn.instructions
    IN  /\ inj.status = "crashed"
        /\ inj.errors = 1
        /\ Len(inj.fn.blocks) = Len(input.c.fn.blocks) + 2
        /\ Cardinality({i \in Emitted(f0, f) : IsBufferStore(f[i])}) = 3
        /\ \A d \in DispatchCalls(f0) : \E e \in DispatchCalls(f) : f[e] = f0[d]

(***************************************************************************)
(* The blocks of the injected function.                                    *)
(***************************************************************************)
Terminators(f) == {i \in 1..Len(f) : IsTerminator(f[i])}

\* the 0-based index, in the block list, of the block that holds the
\* instruction at the 1-based position i
BlockOf(f, i) == Cardinality({t \in Terminators(f) : t < i})

\* the 1-based position of the terminator of the block with the 0-based
\* index k
EndOf(f, k) == CHOOSE t \in Terminators(f) : BlockOf(f, t) = k

\* value is the comparison of the flattened thread id with 0, made before
\* the position at
IsThreadZeroTest(f, value, at) ==
  \E c \in Referred(f, value) :
    /\ c < at
    /\ f[c].op = "IEqual"
    /\ f[c].args[2] = CreateConstant(U32(0))
    /\ \E t \in Referred(f, f[c].args[1]) :
         t < c /\ f[t].op = "Call" /\ f[t].dxop = "flattenedThreadIdInGroup"

OneDispatchInjected ==
  /\ InjectorRan
  /\ Cardinality(DispatchCalls(input.c.fn.instructions)) = 1

\* C18: after the injector has run on a function with one dispatch call,
\* the block that held the call is three consecutive blocks of the block
\* list: the prefix, ending in a conditional branch on flattened thread id
\* = 0 to the capture block (true) and the continue block (false); the
\* capture block, ending in an unconditional branch to the continue block;
\* the continue block, holding the dispatch call and the original
\* terminator.  There are as many blocks as terminators in the stream and
\* every block ends in exactly one terminator.
C18_SplitInThree ==
  OneDispatchInjected =>
    LET f0 == input.c.fn.instructions
        f == inj.fn.instructions
        blocks0 == input.c.fn.blocks
        blocks == inj.fn.blocks
        d0 == CHOOSE d \in DispatchCalls(f0) : TRUE
        b == BlockOf(f0, d0)
    IN  /\ Cardinality(DispatchCalls(f)) = 1
        /\ Cardinality(Terminators(f)) = Len(blocks)
        /\ IsTerminator(f[Len(f)])
        /\ Len(blocks) = Len(blocks0) + 2
        /\ SubSeq(blocks, 1, b + 1) = SubSeq(blocks0, 1, b + 1)
        /\ SubSeq(blocks, b + 4, Len(blocks)) = SubSeq(blocks0, b + 2, Len(blocks0))
        /\ LET trueBlock == blocks[b + 2]
               falseBlock == blocks[b + 3]
               prefixEnd == EndOf(f, b)
               captureEnd == EndOf(f, b + 1)
               continueEnd == EndOf(f, b + 2)
               d == CHOOSE d \in DispatchCalls(f) : TRUE
           IN  /\ trueBlock # falseBlock
               /\ \A k \in 1..Len(blocks0) : blocks0[k] \notin {trueBlock, falseBlock}
               /\ f[prefixEnd].op = "Branch"
               /\ Len(f[prefixEnd].args) = 3
               /\ f[prefixEnd].args[1] = BlockRef(trueBlock)
               /\ f[prefixEnd].args[2] = BlockRef(falseBlock)
               /\ IsThreadZeroTest(f, f[prefixEnd].args[3], prefixEnd)
               /\ f[captureEnd].op = "Branch"
               /\ f[captureEnd].args = <<BlockRef(falseBlock)>>
               /\ BlockOf(f, d) = b + 2
               /\ d = captureEnd + 1
               /\ f[continueEnd] = f0[EndOf(f0, b)]
               /\ SubSeq(f, d + 1, continueEnd) = SubSeq(f0, d0 + 1, EndOf(f0, b))

\* the second block of two has become the blocks 1, 2 and 3 of four
C18_Witness ==
  /\ OneDispatchInjected
  /\ Len(input.c.fn.blocks) = 2
  /\ Len(inj.fn.blocks) = 4
  /\ \E d \in DispatchCalls(inj.fn.instructions) : BlockOf(inj.fn.instructions, d) = 3
  /\ inj.fn.instructions[EndOf(inj.fn.instructions, 2)].args = <<BlockRef(inj.fn.blocks[4])>>

(***************************************************************************)
(* The capture block.                                                      *)
(***************************************************************************)
\* value is baseOffset + bytes, or baseOffset itself where bytes = 0 is
\* allowed to be left out, computed before the position at
IsSlotOffset(f, value, bytes, at, bare) ==
  IF bare THEN value = inj.baseOffset
  ELSE \E a \in Referred(f, value) :
         /\ a < at
         /\ f[a].op = "Add"
         /\ f[a].args[1] = inj.baseOffset
         /\ f[a].args[2].k = "const"
         /\ ToNat(f[a].args[2].v) = bytes

OneSupportedInjected == OneDispatchInjected /\ Supported(OriginalPayloadType)

\* C19: inside the capture block the injector emits, in this order, the
\* barrier, the store of the original x dimension at baseOffset + 0, of y
\* at baseOffset + 4 and of z at baseOffset + 8, the copies of the payload
\* members 0..n-1 in declaration order with the cursor starting at 16, and
\* the branch to the continue block; no payload load precedes the barrier.
C19_CaptureOrder ==
  OneSupportedInjected =>
    LET f0 == input.c.fn.instructions
        f == inj.fn.instructions
        d0 == CHOOSE d \in DispatchCalls(f0) : TRUE
        b == BlockOf(f0, d0)
        first == EndOf(f, b) + 1
        last == EndOf(f, b + 1)
        stores == SelectSeq([i \in 1..(last - first + 1) |-> first + i - 1],
                            LAMBDA i : IsBufferStore(f[i]))
        ls == Leaves(OriginalPayloadType, <<0>>)
    IN  /\ f[first].op = "Call"
        /\ f[first].dxop = "barrier"
        /\ \A i \in first..last : i # first => f[i].dxop # "barrier"
        /\ \A i \in Emitted(f0, f) : f[i].op = "Load" => (i > first /\ i < last)
        /\ Len(stores) = 3 + Len(ls)
        /\ \A j \in 1..3 :
             /\ f[stores[j]].args[5] = f0[d0].args[j + 1]
             /\ IsSlotOffset(f, f[stores[j]].args[3], 4 * (j - 1), stores[j], j = 1)
        /\ \A k \in 1..Len(ls) :
             /\ IsSlotOffset(f, f[stores[3 + k]].args[3], 16 + PackedBytes(ls, k - 1),
                             stores[3 + k], FALSE)
             /\ \E l \in Referred(f, f[stores[3 + k]].args[5]) :
                  /\ l > stores[2 + k]
                  /\ l < stores[3 + k]
                  /\ f[l].op = "Load"
                  /\ f[l].args[1].k = "gep"
                  /\ f[l].args[1].v = ls[k].path
        /\ stores[Len(stores)] < last
        /\ f[last].op = "Branch"
        /\ f[last].args = <<BlockRef(inj.fn.blocks[b + 3])>>

\* the capture block of a payload of three leaves in two members
C19_Witness ==
  /\ OneSupportedInjected
  /\ OriginalPayloadType = StructT(<<f32, ArrayT(i32, MaxElems)>>)
  /\ LET f == inj.fn.instructions
         d == CHOOSE d \in DispatchCalls(f) : TRUE
     IN  /\ f[d - 1].op = "Branch"
         /\ IsBufferStore(f[d - 2])
         /\ f[d - 4].op = "Load"
         /\ f[d - 4].args[1].v = <<0, 1, MaxElems - 1>>
         /\ Cardinality({i \in 1..(d - 1) : IsBufferStore(f[i])}) = 4 + MaxElems

(***************************************************************************)
(* The body of the feeder.                                                 *)
(***************************************************************************)
HandleOps == {"createHandle", "createHandleFromBinding", "annotateHandle"}

\* the instructions at the positions from + 1 .. from + 4 copy the leaf
\* at path from the buffer at baseOffset + cursor into the payload
IsLeafCopy(f, from, path, cursor) ==
  /\ f[from + 1].op = "Add"
  /\ f[from + 1].args[1] = fed.baseOffset
  /\ f[from + 1].args[2].k = "const"
  /\ ToNat(f[from + 1].args[2].v) = cursor
  /\ IsBufferLoad(f[from + 2])
  /\ f[from + 2].args[3] = InstRef(f[from + 1])
  /\ f[from + 3].op = "ExtractVal"
  /\ f[from + 3].args = <<InstRef(f[from + 2]), CreateLiteral(0)>>
  /\ f[from + 4].op = "Store"
  /\ f[from + 4].args[1].k = "gep"
  /\ f[from + 4].args[1].v = path
  /\ f[from + 4].args[2] = InstRef(f[from + 3])

FeederRanSupported == FeederRan /\ Supported(OriginalPayloadType)

\* C20: the feeder leaves the entry function with exactly one block, whose
\* instructions are, in this order, the handle acquisition, the slot
\* computation, one header load, four extracts, the buffer to payload
\* copies of the original members, the four stores of the header scalars,
\* the dispatch call and a return, the last instruction and the only
\* terminator; no instruction of the original body remains.
C20_FeederBody ==
  FeederRanSupported =>
    LET f0 == input.c.fn.instructions
        f == fed.fn.instructions
        ls == Leaves(OriginalPayloadType, <<0>>)
        n == Len(OriginalPayloadType.members)
        h == Cardinality({i \in 1..Len(f) : f[i].dxop \in HandleOps})
        slot == h + 8
        copies == slot + 5
        header == copies + 4 * Len(ls)
    IN  /\ Len(fed.fn.blocks) = 1
        /\ fed.fn.blocks[1] = input.c.fn.blocks[1]
        /\ Emitted(f0, f) = 1..Len(f)
        /\ Len(f) = header + 6
        /\ Terminators(f) = {Len(f)}
        /\ f[Len(f)].op = "Ret"
        /\ h >= 1
        /\ \A i \in 1..h : f[i].dxop \in HandleOps
        /\ fed.handle = InstRef(f[h])
        /\ \A i \in (h + 1)..(h + 3) : f[i].dxop = "groupId"
        /\ \A i \in (h + 4)..slot : f[i].op \in {"Mul", "Add"}
        /\ fed.baseOffset = InstRef(f[slot])
        /\ IsBufferLoad(f[slot + 1])
        /\ f[slot + 1].args[2] = fed.handle
        /\ f[slot + 1].args[3] = fed.baseOffset
        /\ \A k \in 0..3 :
             /\ f[slot + 2 + k].op = "ExtractVal"
             /\ f[slot + 2 + k].args = <<InstRef(f[slot + 1]), CreateLiteral(k)>>
        /\ \A k \in 1..Len(ls) :
             IsLeafCopy(f, copies + 4 * (k - 1), ls[k].path, 16 + PackedBytes(ls, k - 1))
        /\ \A k \in 0..3 :
             /\ f[header + 1 + k].op = "Store"
             /\ f[header + 1 + k].args[1].k = "gep"
             /\ f[header + 1 + k].args[1].v = <<0, n + k>>
             /\ f[header + 1 + k].args[2] = InstRef(f[slot + 2 + k])
        /\ IsDispatchMesh(f[header + 5])
        /\ DispatchCalls(f) = {header + 5}

\* a body of two blocks has become one block of 33 instructions
C20_Witness ==
  /\ FeederRanSupported
  /\ Len(input.c.fn.blocks) = 2
  /\ Len(fed.fn.blocks) = 1
  /\ isShaderModel6_6OrAbove(input.c.version)
  /\ OriginalPayloadType = StructT(<<f32, ArrayT(i32, MaxElems)>>)
  /\ Len(fed.fn.instructions) = 25 + 4 * MaxElems
  /\ fed.fn.instructions[Len(fed.fn.instructions)].op = "Ret"

(***************************************************************************)
(* The payload type of the feeder.                                         *)
(***************************************************************************)
\* the 1-based positions of the stores to the payload member number m
StoresTo(f, m) ==
  {i \in 1..Len(f) : IF f[i].op = "Store" /\ f[i].args[1].k = "gep"
                      THEN f[i].args[1].v[2] = m ELSE FALSE}

\* value is component number component of a buffer load
IsComponent(f, value, component) ==
  \E e \in Referred(f, value) :
    /\ f[e].op = "ExtractVal"
    /\ f[e].args[2] = CreateLiteral(component)
    /\ \E l \in Referred(f, f[e].args[1]) : IsBufferLoad(f[l])

\* C21: the feeder appends exactly four i32 members to the payload struct
\* type: a payload of n members has n + 4, the members 0..n-1 keep index
\* and type; the copies from the buffer cover exactly the members 0..n-1,
\* and the header scalars x, y, z and offset are stored into the members
\* n, n + 1, n + 2 and n + 3, in that order.
C21_FourMembersAppended ==
  FeederRanSupported =>
    LET f == fed.fn.instructions
        old == OriginalPayloadType.members
        new == fed.payloadType.members
        n == Len(old)
    IN  /\ fed.payloadType.type = "Struct"
        /\ Len(new) = n + 4
        /\ SubSeq(new, 1, n) = old
        /\ \A k \in 1..4 : new[n + k] = i32
        /\ fed.payloadVariable.ty = PointerT(fed.payloadType)
        /\ \A d \in DispatchCalls(f) : f[d].args[5] = fed.payloadVariable
        /\ CopiedMembers("feeder") = {m \in 0..(n - 1) : Leaves(old[m + 1], <<>>) # <<>>}
        /\ \A m \in 0..(n - 1) :
             /\ Cardinality(StoresTo(f, m)) = Len(Leaves(old[m + 1], <<>>))
             /\ \A i \in StoresTo(f, m) : IsComponent(f, f[i].args[2], 0)
        /\ \A k \in 0..3 :
             /\ Cardinality(StoresTo(f, n + k)) = 1
             /\ \A i \in StoresTo(f, n + k) :
                  /\ f[i].args[1].v = <<0, n + k>>
                  /\ IsHeaderComponent(SubSeq(f, 1, i - 1), f[i].args[2], k)
                  /\ \A m \in 0..(n + k - 1) : \A j \in StoresTo(f, m) : j < i
        /\ \A i \in 1..Len(f) :
             (f[i].op = "Store") => (f[i].args[1].k = "gep" /\ f[i].args[1].v[2] < n + 4)

\* a payload of two members has become one of six
C21_Witness ==
  /\ FeederRanSupported
  /\ OriginalPayloadType = StructT(<<i16, i64>>)
  /\ fed.payloadType = StructT(<<i16, i64, i32, i32, i32, i32>>)
  /\ StoresTo(fed.fn.instructions, 5) # {}

(***************************************************************************)
(* The handle of the capture buffer.                                       *)
(***************************************************************************)
\* the 1-based positions of the handle instructions of a stream
HandleCalls(f) == {i \in 1..Len(f) : f[i].op = "Call" /\ f[i].dxop \in HandleOps}

\* the 1-based positions of the buffer loads and stores of a stream
BufferAccesses(f) == {i \in 1..Len(f) : IsBufferLoad(f[i]) \/ IsBufferStore(f[i])}

PassRan(pass) == input.status = "input" /\ Left(pass).status = "ok"

\* C22: each pass emits exactly one handle acquisition, chosen by the
\* version alone: one createHandle call below version 6.6, and a
\* createHandleFromBinding call followed by an annotateHandle call of its
\* result from 6.6 on (major > 6, or major = 6 and minor >= 6); the handle
\* is defined before every buffer load or store, and they all use it.
C22_OneHandle ==
  \A pass \in Passes :
    PassRan(pass) =>
      LET f == Left(pass).fn.instructions
          v == input.c.version
          h == CHOOSE i \in HandleCalls(f) : \A j \in HandleCalls(f) : j <= i
      IN  /\ HandleCalls(f) # {}
          /\ IF v.Major > 6 \/ (v.Major = 6 /\ v.Minor >= 6)
             THEN /\ HandleCalls(f) = {h - 1, h}
                  /\ f[h - 1].dxop = "createHandleFromBinding"
                  /\ f[h].dxop = "annotateHandle"
                  /\ f[h].args[2] = InstRef(f[h - 1])
             ELSE /\ HandleCalls(f) = {h}
                  /\ f[h].dxop = "createHandle"
          /\ Left(pass).handle = InstRef(f[h])
          /\ \A a \in BufferAccesses(f) : a > h /\ f[a].args[2] = InstRef(f[h])

\* both passes on a program of version 7.0
C22_Witness ==
  /\ PassRan("injector")
  /\ PassRan("feeder")
  /\ input.c.version = [Major |-> 7, Minor |-> 0]
  /\ inj.fn.instructions[2].dxop = "annotateHandle"
  /\ fed.fn.instructions[2].dxop = "annotateHandle"
  /\ BufferAccesses(inj.fn.instructions) # {}
  /\ BufferAccesses(fed.fn.instructions) # {}

\* both passes on a program of version 5.7
C22_WitnessBelow ==
  /\ PassRan("injector")
  /\ PassRan("feeder")
  /\ input.c.version = [Major |-> 5, Minor |-> 7]
  /\ inj.fn.instructions[1].dxop = "createHandle"
  /\ fed.fn.instructions[1].dxop = "createHandle"

(***************************************************************************)
(* The handle and the declared resource.                                   *)
(***************************************************************************)
\* the fields of a UAV record: slot id, space, base register, register
\* count and shape
RecordFields(rec) ==
  [id |-> rec.children[1].v, space |-> rec.children[4].v,
   base |-> ToNat(rec.children[5].v), count |-> ToNat(rec.children[6].v),
   shape |-> ToNat(rec.children[7].v)]

\* C23: the handle creation and the declared resource agree: the slot id
\* of the createHandle call is the slot id of the UAV record the same pass
\* appended, and the space, base register (1), register count (1) and
\* shape (raw buffer) of that record are the ones given to RegisterUAV and
\* used by the createHandleFromBinding and annotateHandle calls.
C23_HandleMatchesRecord ==
  \A pass \in Passes :
    PassRan(pass) =>
      LET f == Left(pass).fn.instructions
          h == CHOOSE i \in HandleCalls(f) : \A j \in HandleCalls(f) : j <= i
          recs == UAVRecords(Left(pass))
          r == RecordFields(recs[Len(recs)])
          psv == Left(pass).psvUAVs
      IN  /\ Len(recs) = Len(UAVRecords(input.c)) + 1
          /\ r.space = input.space
          /\ r.base = 1
          /\ r.count = 1
          /\ r.shape = RawBuffer
          /\ Len(psv) = 1
          /\ psv[1] = [type |-> "ByteAddressUAV", space |-> r.space, regBase |-> r.base,
                       regEnd |-> r.base + r.count - 1, kind |-> r.shape]
          /\ IF f[h].dxop = "createHandle"
             THEN /\ f[h].args[2] = CreateConstant8(HandleKindUAV)
                  /\ f[h].args[3] = CreateConstant(r.id)
                  /\ f[h].args[4] = CreateConstant(U32(r.base))
             ELSE /\ f[h - 1].args[2].k = "struct"
                  /\ f[h - 1].args[2].v =
                       U32(r.base) \o U32(r.base + r.count - 1) \o r.space \o <<HandleKindUAV>>
                  /\ f[h - 1].args[3] = CreateConstant(U32(r.base))
                  /\ f[h].args[3].k = "struct"
                  /\ SubSeq(f[h].args[3].v, 1, 4) = U32(4096 + r.shape)

\* a createHandle call of slot 3, behind the records 0 and 2
C23_Witness ==
  /\ PassRan("injector")
  /\ PassRan("feeder")
  /\ inj.fn.instructions[1].dxop = "createHandle"
  /\ inj.fn.instructions[1].args[3] = CreateConstant(U32(3))
  /\ fed.fn.instructions[1].args[3] = CreateConstant(U32(3))
  /\ Len(UAVRecords(inj)) = 3
  /\ UAVRecords(inj)[3].children[1].v = U32(3)

\* a createHandleFromBinding call
C23_WitnessBinding ==
  /\ PassRan("injector")
  /\ inj.fn.instructions[1].dxop = "createHandleFromBinding"
  /\ inj.fn.instructions[1].args[2].v = U32(1) \o U32(1) \o U32(105) \o <<1>>

(***************************************************************************)
(* The buffer operations of the copier.                                    *)
(***************************************************************************)
\* the buffer loads and stores the last call of the copier has emitted
EmittedAccesses(ed, before) ==
  SelectSeq(ed.f, LAMBDA inst : inst.id >= before.nextId
                                /\ (IsBufferLoad(inst) \/ IsBufferStore(inst)))

\* the name suffixes of the operation variants
VariantOf(t) ==
  IF t.scalarType = "Float"
  THEN CASE t.bitWidth = 16 -> "f16" [] t.bitWidth = 32 -> "f32" [] t.bitWidth = 64 -> "f64"
  ELSE CASE t.bitWidth = 8 -> "i8" [] t.bitWidth = 16 -> "i16" [] t.bitWidth = 32 -> "i32"
         [] t.bitWidth = 64 -> "i64"

\* the alignment of the leaves: 4 bytes, 8 for the 64-bit scalars
BytesAligned(t) == IF t.bitWidth = 64 THEN 8 ELSE 4

CopyEmitted == cpPhase = "emitted" /\ Supported(cpType)

\* C24: for every scalar leaf the copier uses the alignment
\* max(4, bitWidth/8) and the buffer operation named rawBufferLoad (when
\* reading) or rawBufferStore (when writing) with the suffix 'f' for a
\* float and 'i' for an integer leaf followed by the bit width; two leaves
\* get the same variant only when they have the same kind and width.
C24_VariantAndAlignment ==
  CopyEmitted =>
    LET ls == Leaves(cpType, <<0, 0>>)
        acc == EmittedAccesses(cpEd, cpBefore)
        op == IF cpDir = BufferToPayload THEN "rawBufferLoad" ELSE "rawBufferStore"
    IN  /\ Len(acc) = Len(ls)
        /\ \A k \in 1..Len(ls) :
             /\ acc[k].dxop = op
             /\ acc[k].func = "dx.op." \o op \o "." \o VariantOf(ls[k].ty)
             /\ acc[k].args[Len(acc[k].args)] = CreateConstant(U32(BytesAligned(ls[k].ty)))
             /\ acc[k].func \in cpEd.decls
        /\ \A j, k \in 1..Len(ls) :
             acc[j].func = acc[k].func =>
               /\ ls[j].ty.scalarType = ls[k].ty.scalarType
               /\ ls[j].ty.bitWidth = ls[k].ty.bitWidth

\* a 16-bit float and a 16-bit integer next to each other
C24_Witness ==
  /\ CopyEmitted
  /\ cpType = StructT(<<f16, i16, f32, i32>>)
  /\ cpDir = PayloadToBuffer
  /\ LET acc == EmittedAccesses(cpEd, cpBefore)
     IN  /\ Len(acc) = 4
         /\ acc[1].func = "dx.op.rawBufferStore.f16"
         /\ acc[2].func = "dx.op.rawBufferStore.i16"

(***************************************************************************)
(* The bytes the feeder reads.                                             *)
(***************************************************************************)
\* byte i of the access r lies in an access of the list writes
Written(r, i, writes) ==
  \E j \in 1..Len(writes) :
    \E n \in 0..(writes[j].len - 1) : Add32(writes[j].addr, U32(n)) = Add32(r.addr, U32(i))

\* the access r is the 16-byte load at the start of the slot
IsHeaderLoad(r) ==
  LET inst == InstOf(fed.fn.instructions, r.id)
  IN  inst.args[3] = fed.baseOffset /\ r.len = 16

\* C25: every byte of a slot that the feeder program reads, the 16 bytes
\* of the header at base+0..15 and the payload leaves from base+16 on, is
\* a byte that the capture code of the injected program wrote for the
\* same slot.
C25_ReadsWereWritten ==
  \A k \in DOMAIN xThreads :
    BothRan(k) =>
      \A j \in 1..Len(xFeed[k[1]].reads) :
        \A i \in 0..(xFeed[k[1]].reads[j].len - 1) :
          Written(xFeed[k[1]].reads[j], i, xThreads[k].writes)

\* what holds of C25: the bytes read are written, but for the last four
\* bytes of the header
ReadsButOffsetWritten ==
  \A k \in DOMAIN xThreads :
    BothRan(k) =>
      /\ \E j \in 1..Len(xFeed[k[1]].reads) : IsHeaderLoad(xFeed[k[1]].reads[j])
      /\ \A j \in 1..Len(xFeed[k[1]].reads) :
           LET r == xFeed[k[1]].reads[j]
           IN  \A i \in 0..(r.len - 1) :
                 IF IsHeaderLoad(r) /\ i >= 12 THEN ~Written(r, i, xThreads[k].writes)
                 ELSE Written(r, i, xThreads[k].writes)

(***************************************************************************)
(* The addresses of the copier's accesses.                                 *)
(***************************************************************************)
\* the access r of the stream f was emitted by the copier: its offset is
\* the Add of the base offset and the cursor
IsCopierAccess(f, r) ==
  LET offset == InstOf(f, r.id).args[3]
  IN  IF offset.k = "inst" THEN InstOf(f, offset.v[1]).op = "Add" /\ InstOf(f, offset.v[1]).nsw
      ELSE FALSE

\* the address of the access r is a multiple of the alignment operand of
\* its instruction; the alignments are 4 and 8 and divide 256, so the
\* lowest byte of the address decides
AlignedAccess(f, r) ==
  LET inst == InstOf(f, r.id)
      align == ToNat(inst.args[Len(inst.args)].v)
  IN  align \in {4, 8} /\ r.addr[1] % align = 0

AccessesAligned(f, accesses) ==
  \A j \in 1..Len(accesses) : IsCopierAccess(f, accesses[j]) => AlignedAccess(f, accesses[j])

\* C26: for every buffer load and store the copier emits, the absolute
\* byte offset baseOffset + cursor is a multiple of the alignment declared
\* on that access, max(4, bitWidth/8), for every payload type made of 8-,
\* 16-, 32- and 64-bit scalars and every slot index.
C26_OffsetsAligned ==
  Capturing =>
    /\ \A k \in DOMAIN xThreads : AccessesAligned(inj.fn.instructions, xThreads[k].writes)
    /\ \A g \in DOMAIN xFeed : AccessesAligned(fed.fn.instructions, xFeed[g].reads)

\* what holds of C26: the accesses to a payload of 32-bit leaves are
\* aligned as declared
WordOffsetsAligned ==
  (Capturing /\ \A j \in 1..Len(Leaves(InputPayloadType, <<0>>)) :
                  Leaves(InputPayloadType, <<0>>)[j].ty.bitWidth = 32) =>
    /\ \A k \in DOMAIN xThreads :
         /\ AccessesAligned(inj.fn.instructions, xThreads[k].writes)
         /\ Finished(inj.fn, xThreads[k]) /\ k[2] = 0 =>
              \E j \in 1..Len(xThreads[k].writes) :
                IsCopierAccess(inj.fn.instructions, xThreads[k].writes[j])
    /\ \A g \in DOMAIN xFeed :
         /\ AccessesAligned(fed.fn.instructions, xFeed[g].reads)
         /\ Finished(fed.fn, xFeed[g]) =>
              \E j \in 1..Len(xFeed[g].reads) :
                IsCopierAccess(fed.fn.instructions, xFeed[g].reads[j])

(***************************************************************************)
(* Progress of the threads of the capture dispatch.  The device runs a     *)
(* thread that has a next instruction and is not held at a barrier: while  *)
(* some thread of the dispatch can make a step, one is made.  The programs *)
(* have no loop, so every thread that is not held for ever ends.           *)
(***************************************************************************)
SpecExecFair == ExecInit /\ [][ExecNext]_vars /\ WF_vars(Capture)

\* every thread of the capture dispatch has executed the dispatch call
AllDispatched == \A k \in DOMAIN xThreads : xThreads[k].dispatched # <<>>

\* a thread that has executed the dispatch call does not stand at one
DispatchedOnce ==
  \A k \in DOMAIN xThreads :
    (xThreads[k].dispatched # <<>> /\ ~Finished(inj.fn, xThreads[k])) =>
      ~IsDispatchMesh(inj.fn.instructions[xThreads[k].pc])

\* C27: in the injected program every thread of a group that reaches the
\* split point eventually executes the dispatch call, and exactly once,
\* whatever the number of threads of the group: the capturing thread is
\* not left waiting at the barrier for the threads that took the false
\* branch, and the other threads do not wait for it.
C27_EveryThreadDispatches ==
  /\ [](Capturing => DispatchedOnce)
  /\ (Capturing ~> AllDispatched)

\* what holds of C27: the threads all dispatch unless the barrier waits
\* for every thread of the group
DispatchUnlessStrict ==
  /\ [](Capturing => DispatchedOnce)
  /\ ((Capturing /\ xMode # "strict") ~> AllDispatched)

\* the threads other than the capturing thread dispatch in every case
OthersDispatch ==
  Capturing ~> (\A k \in DOMAIN xThreads : k[2] # 0 => xThreads[k].dispatched # <<>>)

\* a group of one thread dispatches in every case
SingleThreadDispatches ==
  (Capturing /\ \A k \in DOMAIN xThreads : k[2] = 0) ~> AllDispatched

(***************************************************************************)
(* The original instructions in the injected function.                     *)
(***************************************************************************)
\* the instructions of f that are instructions of f0, in the order of f
Kept(f0, f) == SelectSeq(f, LAMBDA inst : \E j \in 1..Len(f0) : f0[j].id = inst.id)

\* after is before with no other change than the dimension arguments
SameButDimensions(before, after) ==
  /\ [after EXCEPT !.args = <<>>] = [before EXCEPT !.args = <<>>]
  /\ Len(after.args) = Len(before.args)
  /\ \A a \in 1..Len(before.args) : a \notin 2..4 => after.args[a] = before.args[a]

\* the instruction the value refers to stands among the first n
AmongFirst(f, value, n) == \E i \in Referred(f, value) : i <= n

\* C28: the injector removes and reorders no original instruction: every
\* instruction of the original entry function is in the edited function,
\* in the same relative order and with the same operands, but for the
\* three dimension arguments of the dispatch call; the handle creation
\* and the slot computation stand before the first original instruction.
C28_NothingRemoved ==
  InjectorRan =>
    LET f0 == input.c.fn.instructions
        f == inj.fn.instructions
        kept == Kept(f0, f)
    IN  /\ Len(kept) = Len(f0)
        /\ \A j \in 1..Len(f0) :
             IF IsDispatchMesh(f0[j]) /\ inj.payloadFound
             THEN SameButDimensions(f0[j], kept[j])
             ELSE kept[j] = f0[j]
        /\ \A i \in 1..inj.prelimInst : i \in Emitted(f0, f)
        /\ f[inj.prelimInst + 1].id = f0[1].id
        /\ HandleCalls(f) # {} /\ \A h \in HandleCalls(f) : h <= inj.prelimInst
        /\ AmongFirst(f, inj.handle, inj.prelimInst)
        /\ AmongFirst(f, inj.flatIndex, inj.prelimInst)
        /\ AmongFirst(f, inj.baseOffset, inj.prelimInst)

\* a function that starts with a branch and stores to three leaves before
\* the dispatch call, which had a dimension that is not a constant
C28_Witness ==
  /\ InjectorRan
  /\ inj.payloadFound
  /\ LET f0 == input.c.fn.instructions
         f == inj.fn.instructions
     IN  /\ f0[1].op = "Branch"
         /\ Cardinality({j \in 1..Len(f0) : f0[j].op = "Store"}) >= 3
         /\ \E j \in 1..Len(f0) :
              /\ IsDispatchMesh(f0[j])
              /\ f0[j].args[2].k = "inst"
              /\ Kept(f0, f)[j].args[2] = CreateConstant(U32(0))
         /\ Len(f) > Len(f0) + inj.prelimInst

(***************************************************************************)
(* What a pass that stops leaves behind.                                   *)
(***************************************************************************)
\* the pass has stopped on a missing entry point list
StoppedAtEntryPoints(pass) ==
  input.status = "input" /\ Left(pass).status = "failed" /\ input.c.entryPoints.k = "null"

\* the pass has stopped because no function has the entry point's name
StoppedAtFunction(pass) ==
  /\ input.status = "input"
  /\ Left(pass).status = "failed"
  /\ input.c.entryPoints.k # "null"
  /\ input.c.fn.name # input.c.entryPoints.children[1].children[2].str

\* the parts of the program that the pass has left as they were
SameResources(pass) == Left(pass).resources = input.c.resources

SameEntryPoints(pass) == Left(pass).entryPoints = input.c.entryPoints

SameFlags(pass) == Left(pass).globalFlags = input.c.globalFlags

SameFunction(pass) == Left(pass).fn = input.c.fn

\* C29: when a pass stops on a structural precondition failure, the entry
\* point list missing or no function with the entry point's name, the
\* program holds no partial edit: the resource list, the entry point's tag
\* list and flags and every function body are the same as before the pass
\* started.
C29_NoPartialEdit ==
  \A pass \in Passes :
    (StoppedAtEntryPoints(pass) \/ StoppedAtFunction(pass)) =>
      /\ SameResources(pass)
      /\ SameEntryPoints(pass)
      /\ SameFlags(pass)
      /\ SameFunction(pass)

\* what holds of C29: the function body is the same in both cases, the
\* entry points when the list is missing; the UAV record has been added
\* in both cases, and the tag list has been patched when the function is
\* missing
StoppedKeepsFunction ==
  \A pass \in Passes :
    /\ StoppedAtEntryPoints(pass) =>
         SameFunction(pass) /\ SameEntryPoints(pass) /\ SameFlags(pass) /\ ~SameResources(pass)
    /\ StoppedAtFunction(pass) =>
         SameFunction(pass) /\ ~SameEntryPoints(pass) /\ ~SameResources(pass)

\* both passes have stopped for a missing function
StoppedAtFunctionReached == \A pass \in Passes : StoppedAtFunction(pass)

(***************************************************************************)
(* The resize-and-retry loop.                                              *)
(***************************************************************************)
\* how a run of the loop body ends: the loop is left with a buffer that
\* holds the output, or the function returns with an error status, or the
\* loop goes on with a buffer of at least the output's size
IterationOutcome ==
  \/ soPc' = "done" /\ m_SOBufferSize' >= outputSize' /\ soStatus' = ""
  \/ soPc' = "returned" /\ soStatus' # ""
  \/ /\ soPc' = "loop"
     /\ m_SOBufferSize' >= outputSize'
     /\ m_SOBufferSize' > m_SOBufferSize
     /\ soStatus' = ""

C30_WitnessTooLarge ==
  /\ soPc = "returned"
  /\ soStatus = "ran out of memory"
  /\ outputSize >= FourGBLimit
  /\ m_SOBufferSize = 0

====
